---- MODULE Spec2Model ----
(***************************************************************************)
(* torrent_compress_recovery: the recovery planner (core.recover) over a   *)
(* decoded torrent file, two basename indices and the output tree, with    *)
(* the torrent model (bencode.parse_torrent) and the per-format header     *)
(* parsers, patchers and candidate generators it calls.                    *)
(*                                                                         *)
(* Conventions.  Bytes are integers 0..255 and byte strings are sequences  *)
(* of them.  Text (paths, attributes) is a sequence of one-character       *)
(* strings.  A Python Optional is a sequence of length <= 1: <<>> is None  *)
(* and <<v>> is the value v.  A digest is a record [alg, of]: hashing is   *)
(* taken to be collision free, so a digest is determined by its algorithm  *)
(* and its preimage.                                                       *)
(***************************************************************************)
EXTENDS Integers, Sequences, FiniteSets, TLC

VARIABLES
    torrent,        \* what bencodepy.decode makes of the bytes at torrent_path
    meta,           \* TorrentMeta returned by parse_torrent (core.py:269)
    partial_index,  \* build_basename_index([partial_dir]) (core.py:272)
    raw_index,      \* build_basename_index([raw_dir]) (core.py:273)
    tools,          \* the external compression tools of the host
    overwrite,      \* recover(..., overwrite=)
    dry_run,        \* recover(..., dry_run=)
    out0,           \* the tree under out_root when recover is called
    run,            \* this call: output tree, counters, operation log
    twin,           \* the same call with dry_run negated, in lockstep
    idx,            \* position of the loop `for tf in meta.files`
    pc,             \* "parse" | "loop" | "done" | "decode_error" | "crashed" | "waiting"
                    \* of recover; "call" | "patched" | "returned" of a plugin call
    call,           \* a direct call of a format plugin: function, format, arguments
    ret             \* what the plugin returned last

vars == <<torrent, meta, partial_index, raw_index, tools, overwrite, dry_run, out0, run, twin, idx, pc, call, ret>>

-----------------------------------------------------------------------------
(* Python values *)

None == <<>>
Some(v) == <<v>>
IsNone(o) == o = <<>>
Val(o) == o[1]

Min(a, b) == IF a < b THEN a ELSE b

Max(a, b) == IF a > b THEN a ELSE b

\* data[a:b] for 0 <= a: a slice clamps to the length of the data, and a
\* negative b counts from the end
Slice(s, a, b) ==
    LET hi == IF b < 0 THEN Max(Len(s) + b, 0) ELSE Min(b, Len(s))
    IN IF a >= hi THEN <<>> ELSE SubSeq(s, a + 1, hi)

\* a // b for b # 0: the quotient rounded towards minus infinity
FloorDiv(a, b) == IF b > 0 THEN a \div b ELSE (-a) \div (-b)

\* seq[k] for a 0-based k that may be negative, and whether it raises IndexError
InRange(seq, k) == -Len(seq) <= k /\ k < Len(seq)
At(seq, k) == IF k < 0 THEN seq[Len(seq) + k + 1] ELSE seq[k + 1]

\* data[a:]
From(s, a) == Slice(s, a, Len(s))

\* s.endswith(suffix)
EndsWith(s, suffix) ==
    /\ Len(s) >= Len(suffix)
    /\ SubSeq(s, Len(s) - Len(suffix) + 1, Len(s)) = suffix

\* s.startswith(prefix)
StartsWith(s, prefix) ==
    /\ Len(s) >= Len(prefix)
    /\ SubSeq(s, 1, Len(prefix)) = prefix

\* s.endswith((a, b, ...))
EndsWithAny(s, suffixes) == \E x \in suffixes : EndsWith(s, x)

\* int.from_bytes(b, "little")
RECURSIVE FromLittle(_)
FromLittle(b) == IF b = <<>> THEN 0 ELSE b[1] + 256 * FromLittle(Tail(b))

\* n.to_bytes(k, "little"), for 0 <= n < 256^k
RECURSIVE ToLittle(_, _)
ToLittle(n, k) == IF k = 0 THEN <<>> ELSE <<n % 256>> \o ToLittle(n \div 256, k - 1)

\* data.find(b"\x00", pos): the 0-based index of the first zero byte at or
\* after pos, or -1
FindZero(data, pos) ==
    LET hits == {i \in pos .. Len(data) - 1 : data[i + 1] = 0}
    IN IF hits = {} THEN -1 ELSE CHOOSE i \in hits : \A j \in hits : i <= j

-----------------------------------------------------------------------------
(* Hasher *)

sha1_piece(data) == [alg |-> "sha1", of |-> data]
sha256_piece(data) == [alg |-> "sha256", of |-> data]

\* the width of one slot of `pieces` (bencode.py:76-78) and of a SHA-1 digest
SHA1_SIZE == 20

\* len(digest)
DigestSize(h) == IF h.alg = "sha256" THEN 32 ELSE 20

\* the 20 leading bytes of a SHA-256 digest, as one slot of meta.pieces holds them
Leading20(h) == [alg |-> "sha256[:20]", of |-> h.of]

\* a 20-byte slot that is the digest of nothing at hand
JunkDigest == [alg |-> "junk", of |-> <<>>]

-----------------------------------------------------------------------------
(* Paths *)

SLASH == "/"

RECURSIVE SplitSlash(_)
SplitSlash(s) ==
    LET hits == {i \in 1 .. Len(s) : s[i] = SLASH}
    IN IF hits = {} THEN <<s>>
       ELSE LET i == CHOOSE k \in hits : \A j \in hits : k <= j
            IN <<SubSeq(s, 1, i - 1)>> \o SplitSlash(SubSeq(s, i + 1, Len(s)))

\* PurePath(s).parts of a relative path: empty and "." components collapse
PathParts(s) == SelectSeq(SplitSlash(s), LAMBDA c : c # <<>> /\ c # <<".">>)

\* Path(s).name
PathName(s) ==
    LET parts == PathParts(s)
    IN IF parts = <<>> THEN <<>> ELSE parts[Len(parts)]

\* out_root / rel_path, as the components that follow out_root: a ".."
\* component stays, and a rel_path that starts with a slash is absolute and
\* replaces out_root, its first component being the root
DstOf(rel_path) ==
    IF rel_path # <<>> /\ rel_path[1] = SLASH THEN <<<<SLASH>>>> \o PathParts(rel_path)
    ELSE PathParts(rel_path)

\* the directories dst.parent.mkdir(parents=True) makes sure of, out_root
\* (the empty component list) included
Parents(dst) == {SubSeq(dst, 1, k) : k \in 0 .. Len(dst) - 1}

-----------------------------------------------------------------------------
(* The output tree: files maps the path of each regular file to its bytes, *)
(* dirs is the set of directories.  A log entry records one file-system    *)
(* call made on behalf of torrent entry i, and whether its target existed. *)

Tree(files, dirs) == [files |-> files, dirs |-> dirs]

\* dst.exists()
Exists(tree, p) == p \in DOMAIN tree.files \/ p \in tree.dirs

LogEntry(i, op, path, existed, label) ==
    [file |-> i, op |-> op, path |-> path, existed |-> existed, label |-> label]

\* dst.unlink()
Unlink(r, i, dst) ==
    [r EXCEPT !.tree.files = [p \in DOMAIN r.tree.files \ {dst} |-> r.tree.files[p]],
              !.log = Append(@, LogEntry(i, "unlink", dst, Exists(r.tree, dst), None))]

\* dst.parent.mkdir(parents=True, exist_ok=True)
MkdirParents(r, i, dst) ==
    [r EXCEPT !.tree.dirs = @ \cup Parents(dst),
              !.log = Append(@, LogEntry(i, "mkdir", dst,
                                         Parents(dst) \subseteq r.tree.dirs, None))]

\* dst.write_bytes(data) and shutil.copy2(src, dst): dst holds data afterwards
WriteFile(r, i, dst, data, label) ==
    [r EXCEPT !.tree.files = (dst :> data) @@ @,
              !.log = Append(@, LogEntry(i, "write", dst, Exists(r.tree, dst), label))]

-----------------------------------------------------------------------------
(* Bit operations on non-negative integers *)

RECURSIVE BitAnd(_, _)
BitAnd(a, b) ==
    IF a = 0 \/ b = 0 THEN 0
    ELSE (a % 2) * (b % 2) + 2 * BitAnd(a \div 2, b \div 2)

RECURSIVE BitOr(_, _)
BitOr(a, b) ==
    IF a = 0 THEN b
    ELSE IF b = 0 THEN a
    ELSE (IF a % 2 = 1 \/ b % 2 = 1 THEN 1 ELSE 0) + 2 * BitOr(a \div 2, b \div 2)

\* bool(n & mask)
Flag(n, mask) == BitAnd(n, mask) # 0

\* data[:pos] + new + data[pos + cut:]
Splice(data, pos, cut, new) == Slice(data, 0, pos) \o new \o From(data, pos + cut)

-----------------------------------------------------------------------------
(* gzip plugin (gzip.py) *)

GZIP_MAGIC == <<31, 139>>
GZIP_READ_SIZE == 256
GZIP_FIXED_HEADER == 10
GZIP_METHOD_DEFLATE == 8
FEXTRA == 4
FNAME == 8
FCOMMENT == 16

GzipHeader(mtime, os, flags, extra, fname, fcomment) ==
    [mtime |-> mtime, os |-> os, flags |-> flags,
     extra |-> extra, fname |-> fname, fcomment |-> fcomment]

\* parse_gzip_header(path), on the bytes of the file at path
parse_gzip_header(content) ==
    LET data == Slice(content, 0, GZIP_READ_SIZE)
    IN IF Len(data) < GZIP_FIXED_HEADER \/ Slice(data, 0, 2) # GZIP_MAGIC THEN None
       ELSE IF data[3] # GZIP_METHOD_DEFLATE THEN None
       ELSE
        LET flags == data[4]
            mtime == FromLittle(Slice(data, 4, 8))
            os == data[10]
            pos0 == GZIP_FIXED_HEADER
            hasX == Flag(flags, FEXTRA)
            xlen == FromLittle(Slice(data, pos0, pos0 + 2))
            extra == IF hasX THEN Some(Slice(data, pos0 + 2, pos0 + 2 + xlen)) ELSE None
            pos1 == IF hasX THEN pos0 + 2 + xlen ELSE pos0
            hasN == Flag(flags, FNAME)
            endN == FindZero(data, pos1)
            fname == IF hasN /\ endN # -1 THEN Some(Slice(data, pos1, endN)) ELSE None
            pos2 == IF hasN THEN endN + 1 ELSE pos1
            hasC == Flag(flags, FCOMMENT)
            endC == FindZero(data, pos2)
            fcomment == IF hasC /\ endC # -1 THEN Some(Slice(data, pos2, endC)) ELSE None
        IN IF hasN /\ endN = -1 THEN None
           ELSE IF hasC /\ endC = -1 THEN None
           ELSE Some(GzipHeader(mtime, os, flags, extra, fname, fcomment))

\* patch_gzip_header: the fixed ten bytes
PatchGzipFixed(data, header) ==
    Slice(data, 0, 3) \o <<header.flags % 256>> \o ToLittle(header.mtime, 4)
    \o <<0, header.os % 256>> \o From(data, GZIP_FIXED_HEADER)

\* patch_gzip_header: the FEXTRA branch; each branch maps [d, pos] to [d, pos]
PatchGzipExtra(s, header) ==
    IF ~Flag(header.flags, FEXTRA) THEN s
    ELSE IF ~IsNone(header.extra) THEN
        LET extra == Val(header.extra)
        IN [d |-> Splice(s.d, s.pos, 2, ToLittle(Len(extra), 2) \o extra),
            pos |-> s.pos + 2 + Len(extra)]
    ELSE
        LET extra_len == FromLittle(Slice(s.d, s.pos, s.pos + 2))
        IN [d |-> Splice(s.d, s.pos, 2 + extra_len, <<>>), pos |-> s.pos]

\* patch_gzip_header: the FNAME branch
PatchGzipName(s, header) ==
    IF ~Flag(header.flags, FNAME) THEN s
    ELSE IF ~IsNone(header.fname) THEN
        LET fname_bytes == Val(header.fname) \o <<0>>
        IN [d |-> Splice(s.d, s.pos, 0, fname_bytes), pos |-> s.pos + Len(fname_bytes)]
    ELSE
        LET end == FindZero(s.d, s.pos)
        IN IF end = -1 THEN s
           ELSE LET d2 == Slice(s.d, 0, s.pos) \o From(s.d, end + 1)
                IN [d |-> d2, pos |-> Len(d2)]

\* patch_gzip_header: the FCOMMENT branch
PatchGzipComment(s, header) ==
    IF ~Flag(header.flags, FCOMMENT) THEN s
    ELSE IF ~IsNone(header.fcomment) THEN
        [d |-> Splice(s.d, s.pos, 0, Val(header.fcomment) \o <<0>>), pos |-> s.pos]
    ELSE
        LET end == FindZero(s.d, s.pos)
        IN IF end = -1 THEN s
           ELSE [d |-> Slice(s.d, 0, s.pos) \o From(s.d, end + 1), pos |-> s.pos]

patch_gzip_header(data, header) ==
    IF Len(data) < GZIP_FIXED_HEADER THEN data
    ELSE LET s0 == [d |-> PatchGzipFixed(data, header), pos |-> GZIP_FIXED_HEADER]
         IN PatchGzipComment(PatchGzipName(PatchGzipExtra(s0, header), header), header).d

-----------------------------------------------------------------------------
(* bzip2 plugin (bz2.py) *)

BZIP2_MAGIC == <<66, 90, 104>>
BZIP2_HEADER_SIZE == 4
BZIP2_MIN_LEVEL == 1
BZIP2_MAX_LEVEL == 9
BZIP2_LEVEL_BYTE_POS == 3
ORD_ZERO == 48

\* ord(str(level)) for a one-digit level
OrdDigit(level) == ORD_ZERO + level

Bzip2Header(level, block_size) == [level |-> level, block_size |-> block_size]

\* BZIP2_BLOCK_SIZES.get(level, 0)
Bzip2BlockSize(level) ==
    IF level \in BZIP2_MIN_LEVEL .. BZIP2_MAX_LEVEL THEN level * 100000 ELSE 0

parse_bzip2_header(content) ==
    LET data == Slice(content, 0, BZIP2_HEADER_SIZE)
    IN IF Len(data) < BZIP2_HEADER_SIZE \/ ~StartsWith(data, BZIP2_MAGIC) THEN None
       ELSE IF \/ data[BZIP2_LEVEL_BYTE_POS + 1] < OrdDigit(BZIP2_MIN_LEVEL)
               \/ data[BZIP2_LEVEL_BYTE_POS + 1] > OrdDigit(BZIP2_MAX_LEVEL) THEN None
       ELSE LET level == data[BZIP2_LEVEL_BYTE_POS + 1] - ORD_ZERO
            IN Some(Bzip2Header(level, Bzip2BlockSize(level)))

patch_bzip2_header(data, header) ==
    IF Len(data) < BZIP2_HEADER_SIZE \/ ~StartsWith(data, BZIP2_MAGIC) THEN data
    ELSE [data EXCEPT ![BZIP2_LEVEL_BYTE_POS + 1] = OrdDigit(header.level)]

-----------------------------------------------------------------------------
(* xz plugin (xz.py) *)

XZ_MAGIC == <<253, 55, 122, 88, 90, 0>>
XZ_HEADER_MIN_SIZE == 12
XZ_STREAM_FLAGS_SIZE == 2
XZ_STREAM_FLAGS_CRC64 == 1
XZ_MIN_LEVEL == 0
XZ_DEFAULT_LEVEL == 6
XZ_MAX_LEVEL == 9

XzHeader(flags, has_crc64) == [flags |-> flags, has_crc64 |-> has_crc64]

parse_xz_header(content) ==
    LET data == Slice(content, 0, XZ_HEADER_MIN_SIZE)
    IN IF Len(data) < XZ_HEADER_MIN_SIZE \/ ~StartsWith(data, XZ_MAGIC) THEN None
       ELSE LET flags == FromLittle(Slice(data, 6, 8))
            IN Some(XzHeader(flags, Flag(flags, XZ_STREAM_FLAGS_CRC64)))

\* the stored CRC32 of the stream flags written anew
patch_xz_header_RewritesCrc(data, header) ==
    IF Len(data) < XZ_HEADER_MIN_SIZE \/ ~StartsWith(data, XZ_MAGIC) THEN data
    ELSE Splice(data, 6, 6, ToLittle(header.flags, XZ_STREAM_FLAGS_SIZE) \o <<0, 0, 0, 0>>)

patch_xz_header(data, header) ==
    IF Len(data) < XZ_HEADER_MIN_SIZE \/ ~StartsWith(data, XZ_MAGIC) THEN data
    ELSE Splice(data, 6, 2, ToLittle(header.flags, XZ_STREAM_FLAGS_SIZE))

-----------------------------------------------------------------------------
(* zstd plugin (zst.py) *)

ZSTD_MAGIC_NUMBER == <<40, 181, 47, 253>>
ZSTD_FRAME_HEADER_MIN_SIZE == 6
ZSTD_FRAME_HEADER_SIZE == 2
ZSTD_FRAME_HEADER_WINDOWLOG_MASK == 15
ZSTD_FRAME_HEADER_SINGLE_SEGMENT_FLAG == 32
ZSTD_FRAME_HEADER_CHECKSUM_FLAG == 16
ZSTD_FRAME_HEADER_DICT_ID_FLAG == 8
ZSTD_MIN_LEVEL == 1
ZSTD_DEFAULT_LEVEL == 3
ZSTD_MAX_LEVEL == 22

ZstdHeader(window_log, single_segment, has_checksum, has_dict_id) ==
    [window_log |-> window_log, single_segment |-> single_segment,
     has_checksum |-> has_checksum, has_dict_id |-> has_dict_id]

parse_zstd_header(content) ==
    LET data == Slice(content, 0, ZSTD_FRAME_HEADER_MIN_SIZE)
    IN IF Len(data) < ZSTD_FRAME_HEADER_MIN_SIZE \/ ~StartsWith(data, ZSTD_MAGIC_NUMBER)
       THEN None
       ELSE LET frame_header == FromLittle(Slice(data, 4, 6))
            IN Some(ZstdHeader(BitAnd(frame_header, ZSTD_FRAME_HEADER_WINDOWLOG_MASK),
                               Flag(frame_header, ZSTD_FRAME_HEADER_SINGLE_SEGMENT_FLAG),
                               Flag(frame_header, ZSTD_FRAME_HEADER_CHECKSUM_FLAG),
                               Flag(frame_header, ZSTD_FRAME_HEADER_DICT_ID_FLAG)))

patch_zstd_header(data, header) ==
    IF Len(data) < ZSTD_FRAME_HEADER_MIN_SIZE \/ ~StartsWith(data, ZSTD_MAGIC_NUMBER)
    THEN data
    ELSE LET f0 == BitAnd(header.window_log, ZSTD_FRAME_HEADER_WINDOWLOG_MASK)
             f1 == IF header.single_segment
                   THEN BitOr(f0, ZSTD_FRAME_HEADER_SINGLE_SEGMENT_FLAG) ELSE f0
             f2 == IF header.has_checksum
                   THEN BitOr(f1, ZSTD_FRAME_HEADER_CHECKSUM_FLAG) ELSE f1
             f3 == IF header.has_dict_id
                   THEN BitOr(f2, ZSTD_FRAME_HEADER_DICT_ID_FLAG) ELSE f2
         IN Splice(data, 4, 2, ToLittle(f3, ZSTD_FRAME_HEADER_SIZE))

-----------------------------------------------------------------------------
(* External tools.  tools.installed is the set of tool names found on the  *)
(* host; tools.failing is the set of argument vectors (source path left    *)
(* out) that exit non-zero; tools.hanging is the set of tools whose process *)
(* never exits, whatever its arguments.  The bytes a tool writes are a fixed function  *)
(* of the tool, its options and the source: a format header followed by    *)
(* one byte naming the compression parameters and the source bytes.        *)

\* f"-{level}"
LevelFlag(level) ==
    CASE level = 0 -> "-0" [] level = 1 -> "-1" [] level = 3 -> "-3"
      [] level = 6 -> "-6" [] level = 9 -> "-9" [] level = 22 -> "-22"

\* subprocess.run(argv, check=True, capture_output=True) succeeds
Succeeds(env, argv) == argv[1] \in env.installed /\ argv \notin env.failing

\* subprocess.run(argv, ...), called without timeout, never returns for some
\* tool of the given names
Hangs(env, names) == names \cap env.installed \cap env.hanging # {}

PARALLEL_TOOLS == {"pigz", "pbzip2", "pixz", "pzstd"}

\* the parameter byte of the compressed body
BodyByte(tool, level, rsyncable) ==
    level + (IF tool \in PARALLEL_TOOLS THEN 32 ELSE 0) + (IF rsyncable THEN 64 ELSE 0)

\* proc.stdout of gzip / pigz: XFL is 2 at -9 and 4 at -1; without -n the
\* header carries the source's mtime and name
GzipStdout(tool, level, no_name, rsyncable, src) ==
    <<31, 139, 8, IF no_name THEN 0 ELSE FNAME>>
    \o ToLittle(IF no_name THEN 0 ELSE src.mtime, 4)
    \o <<IF level = 9 THEN 2 ELSE IF level = 1 THEN 4 ELSE 0, 3>>
    \o (IF no_name THEN <<>> ELSE <<110, 0>>)
    \o <<BodyByte(tool, level, rsyncable)>> \o src.data

\* gzip.GzipFile(filename="", mode="wb", mtime=mtime): no name, XFL 2, OS 255
PyGzip(src_bytes, mtime) ==
    <<31, 139, 8, 0>> \o ToLittle(mtime, 4) \o <<2, 255>>
    \o <<BodyByte("gzip", 9, FALSE)>> \o src_bytes

\* proc.stdout of bzip2 / pbzip2, and bz2.compress(src_bytes, compresslevel=level)
Bzip2Stdout(tool, level, src_bytes) ==
    BZIP2_MAGIC \o <<OrdDigit(level)>> \o <<BodyByte(tool, level, FALSE)>> \o src_bytes

\* proc.stdout of xz / pixz: stream flags 00 04 (CRC64) and their CRC32
XzStdout(tool, level, src_bytes) ==
    XZ_MAGIC \o <<0, 4>> \o <<230, 214, 180, 70>>
    \o <<BodyByte(tool, level, FALSE)>> \o src_bytes

\* proc.stdout of zstd / pzstd: frame header descriptor and window byte
ZstdStdout(tool, level, src_bytes) ==
    ZSTD_MAGIC_NUMBER \o <<36, 88>> \o <<BodyByte(tool, level, FALSE)>> \o src_bytes

Candidate(label, data) == [label |-> label, data |-> data]
HEADER_MATCH == <<"header_match">>

\* the concatenation, in order, of the lists in parts: what a for loop that
\* appends to one list leaves behind, parts[k] being the appends of pass k
RECURSIVE Concat(_)
Concat(parts) ==
    IF parts = <<>> THEN <<>> ELSE Head(parts) \o Concat(Tail(parts))

-----------------------------------------------------------------------------
(* Candidate generation *)

\* pigz enumerated without the probe
GzipTools_NoProbe(env) == <<"gzip", "pigz">>

\* gzip.py:175-180
GzipTools(env) ==
    <<"gzip">> \o (IF Succeeds(env, <<"pigz", "--version">>) THEN <<"pigz">> ELSE <<>>)

\* gzip.py:185-200, one pass of the innermost loop body
GzipToolCandidate(env, src, header, tool, level, no_name, rsyncable) ==
    LET opts == (IF no_name THEN <<"-n">> ELSE <<>>)
                \o (IF rsyncable THEN <<"--rsyncable">> ELSE <<>>)
        cmd == <<tool, LevelFlag(level)>> \o opts
        out == GzipStdout(tool, level, no_name, rsyncable, src)
        data == IF IsNone(header) THEN out ELSE patch_gzip_header(out, Val(header))
    IN IF Succeeds(env, cmd) THEN <<Candidate(cmd, data)>> ELSE <<>>

\* the order of `for level in [1, 6, 9]`
GzipLevels == <<1, 6, 9>>

generate_gzip_candidates(env, src, header) ==
    LET header_match ==
            IF IsNone(header) THEN <<>>
            ELSE <<Candidate(HEADER_MATCH,
                             patch_gzip_header(PyGzip(src.data, Val(header).mtime),
                                               Val(header)))>>
        gzip_tools == GzipTools(env)
        names == <<TRUE, FALSE>>
        Rsyncables(tool) == IF tool = "gzip" THEN <<FALSE, TRUE>> ELSE <<FALSE>>
        ByName(tool, level, no_name) ==
            Concat([r \in 1 .. Len(Rsyncables(tool)) |->
                      GzipToolCandidate(env, src, header, tool, level, no_name,
                                        Rsyncables(tool)[r])])
        ByLevel(tool, level) ==
            Concat([n \in 1 .. Len(names) |-> ByName(tool, level, names[n])])
        ByTool(tool) ==
            Concat([l \in 1 .. Len(GzipLevels) |-> ByLevel(tool, GzipLevels[l])])
    IN header_match \o Concat([t \in 1 .. Len(gzip_tools) |-> ByTool(gzip_tools[t])])

\* bz2.py:95-100
Bzip2Tools(env) ==
    <<"bzip2">> \o (IF Succeeds(env, <<"pbzip2", "-h">>) THEN <<"pbzip2">> ELSE <<>>)

\* the order of `for level in [BZIP2_MIN_LEVEL, 6, BZIP2_MAX_LEVEL]`
Bzip2Levels == <<BZIP2_MIN_LEVEL, 6, BZIP2_MAX_LEVEL>>

generate_bzip2_candidates(env, src, header) ==
    LET header_match ==
            IF IsNone(header) THEN <<>>
            ELSE IF Val(header).level \notin 1 .. 9 THEN <<>>
            ELSE <<Candidate(HEADER_MATCH,
                             Bzip2Stdout("bzip2", Val(header).level, src.data))>>
        bzip2_tools == Bzip2Tools(env)
        ByLevel(tool, level) ==
            LET cmd == <<tool, LevelFlag(level)>>
            IN IF Succeeds(env, cmd)
               THEN <<Candidate(cmd, Bzip2Stdout(tool, level, src.data))>> ELSE <<>>
        ByTool(tool) ==
            Concat([l \in 1 .. Len(Bzip2Levels) |-> ByLevel(tool, Bzip2Levels[l])])
    IN header_match \o Concat([t \in 1 .. Len(bzip2_tools) |-> ByTool(bzip2_tools[t])])

\* xz.py:87-103; the command reads the source on stdin at the default level
XzHeaderMatchCandidate(env, src_bytes, header) ==
    IF Succeeds(env, <<"xz", "-c", "--stdout">>)
    THEN Some(Candidate(HEADER_MATCH,
                        patch_xz_header(XzStdout("xz", XZ_DEFAULT_LEVEL, src_bytes), header)))
    ELSE None

\* xz.py:106-114
XzTools(env) ==
    <<"xz">> \o (IF Succeeds(env, <<"pixz", "--version">>) THEN <<"pixz">> ELSE <<>>)

\* xz.py:117-122
XzBuildCommand(tool, level) == <<tool, LevelFlag(level), "-c", "--stdout">>

\* xz.py:125-138
XzToolCandidate(env, src, tool, level, header) ==
    LET out == XzStdout(tool, level, src.data)
        data == IF IsNone(header) THEN out ELSE patch_xz_header(out, Val(header))
    IN IF Succeeds(env, XzBuildCommand(tool, level))
       THEN Some(Candidate(<<tool, LevelFlag(level)>>, data)) ELSE None

XzLevels == <<XZ_MIN_LEVEL, XZ_DEFAULT_LEVEL, XZ_MAX_LEVEL>>

generate_xz_candidates(env, src, header) ==
    LET header_match ==
            IF IsNone(header) THEN <<>>
            ELSE XzHeaderMatchCandidate(env, src.data, Val(header))
        xz_tools == XzTools(env)
        ByTool(tool) ==
            Concat([l \in 1 .. Len(XzLevels) |->
                      XzToolCandidate(env, src, tool, XzLevels[l], header)])
    IN header_match \o Concat([t \in 1 .. Len(xz_tools) |-> ByTool(xz_tools[t])])

\* zst.py:103-119
ZstdHeaderMatchCandidate(env, src_bytes, header) ==
    IF Succeeds(env, <<"zstd", "-c", "--stdout">>)
    THEN Some(Candidate(HEADER_MATCH,
                        patch_zstd_header(ZstdStdout("zstd", ZSTD_DEFAULT_LEVEL, src_bytes),
                                          header)))
    ELSE None

\* zst.py:122-130
ZstdTools(env) ==
    <<"zstd">> \o (IF Succeeds(env, <<"pzstd", "--version">>) THEN <<"pzstd">> ELSE <<>>)

\* zst.py:133-138
ZstdBuildCommand(tool, level) == <<tool, LevelFlag(level), "-c", "--stdout">>

\* zst.py:141-154
ZstdToolCandidate(env, src, tool, level, header) ==
    LET out == ZstdStdout(tool, level, src.data)
        data == IF IsNone(header) THEN out ELSE patch_zstd_header(out, Val(header))
    IN IF Succeeds(env, ZstdBuildCommand(tool, level))
       THEN Some(Candidate(<<tool, LevelFlag(level)>>, data)) ELSE None

ZstdLevels == <<ZSTD_MIN_LEVEL, ZSTD_DEFAULT_LEVEL, ZSTD_MAX_LEVEL>>

generate_zstd_candidates(env, src, header) ==
    LET header_match ==
            IF IsNone(header) THEN <<>>
            ELSE ZstdHeaderMatchCandidate(env, src.data, Val(header))
        zstd_tools == ZstdTools(env)
        ByTool(tool) ==
            Concat([l \in 1 .. Len(ZstdLevels) |->
                      ZstdToolCandidate(env, src, tool, ZstdLevels[l], header)])
    IN header_match \o Concat([t \in 1 .. Len(zstd_tools) |-> ByTool(zstd_tools[t])])

-----------------------------------------------------------------------------
(* Candidate matching *)

\* SHA-1 whatever the algorithm asked for
HashFn_AlwaysSha1(hash_algo, piece) == sha1_piece(piece)

\* hash_fn = sha1_piece if hash_algo == "sha1" else sha256_piece
HashFn(hash_algo, piece) ==
    IF hash_algo = "sha1" THEN sha1_piece(piece) ELSE sha256_piece(piece)

\* the loop of find_matching_candidate from candidate i on; tested collects
\* the labels whose first piece was hashed
RECURSIVE ScanCandidates(_, _, _, _, _, _)
ScanCandidates(candidates, target_piece_hash, piece_length, hash_algo, i, tested) ==
    IF i > Len(candidates) THEN [match |-> None, tested |-> tested]
    ELSE LET c == candidates[i]
         IN IF Len(c.data) < piece_length
            THEN ScanCandidates(candidates, target_piece_hash, piece_length, hash_algo,
                                i + 1, tested)
            ELSE IF HashFn(hash_algo, Slice(c.data, 0, piece_length)) = target_piece_hash
            THEN [match |-> Some(c), tested |-> Append(tested, c.label)]
            ELSE ScanCandidates(candidates, target_piece_hash, piece_length, hash_algo,
                                i + 1, Append(tested, c.label))

\* the loop without its early return: every candidate is hashed and the last
\* match is kept
find_matching_candidate_KeepsLast(candidates, target_piece_hash, piece_length, hash_algo) ==
    LET long == SelectSeq(candidates, LAMBDA c : Len(c.data) >= piece_length)
        hits == {k \in 1 .. Len(long) :
                   HashFn(hash_algo, Slice(long[k].data, 0, piece_length)) = target_piece_hash}
    IN [match |-> IF hits = {} THEN None
                  ELSE Some(long[CHOOSE k \in hits : \A j \in hits : j <= k]),
        tested |-> [k \in 1 .. Len(long) |-> long[k].label]]

find_matching_candidate(candidates, target_piece_hash, piece_length, hash_algo) ==
    ScanCandidates(candidates, target_piece_hash, piece_length, hash_algo, 1, <<>>)

-----------------------------------------------------------------------------
(* Filesystem index.  An indexed file is [path, data, mtime]; an index     *)
(* maps a basename to the files of that name in discovery order.           *)

IndexedFile(path, data, mtime) == [path |-> path, data |-> data, mtime |-> mtime]

\* the first path taken for the latest
LatestMtime_First(paths) == paths[1]

\* max(paths, key=lambda p: p.stat().st_mtime): the first of the latest
LatestMtime(paths) ==
    LET i == CHOOSE k \in 1 .. Len(paths) :
                /\ \A j \in 1 .. Len(paths) : paths[j].mtime <= paths[k].mtime
                /\ \A j \in 1 .. k - 1 : paths[j].mtime < paths[k].mtime
    IN paths[i]

choose_candidate(candidates, expected_size) ==
    IF candidates = <<>> THEN None
    ELSE LET sized == IF IsNone(expected_size) THEN <<>>
                      ELSE SelectSeq(candidates,
                                     LAMBDA p : Len(p.data) = Val(expected_size))
         IN IF Len(sized) = 1 THEN Some(sized[1])
            ELSE IF Len(sized) > 1 THEN Some(LatestMtime(sized))
            ELSE Some(LatestMtime(candidates))

\* index.get(name, [])
IndexGet(index, name) == IF name \in DOMAIN index THEN index[name] ELSE <<>>

-----------------------------------------------------------------------------
(* Torrent model (bencode.py) *)

TorrentFile(rel_path, length, offset, sha1, attr) ==
    [rel_path |-> rel_path, length |-> length, offset |-> offset,
     sha1 |-> sha1, attr |-> attr]

TorrentMeta(name, files, piece_length, pieces, version) ==
    [name |-> name, files |-> files, piece_length |-> piece_length,
     pieces |-> pieces, version |-> version]

\* `length or 0`
LengthOrZero(length) == IF IsNone(length) THEN 0 ELSE Val(length)

\* a value bencodepy.decode returns: an int, a bytes, a list or a dict keyed
\* by the text of its byte-string keys.  A bytes is a sequence of bytes, or,
\* tagged "digests", a run of 20-byte digests followed by loose bytes.
BInt(n) == [t |-> "int", v |-> n]
BBytes(b) == [t |-> "bytes", v |-> b]
BDigests(digests, loose) == [t |-> "digests", v |-> [digests |-> digests, loose |-> loose]]
BList(l) == [t |-> "list", v |-> l]
BDict(d) == [t |-> "dict", v |-> d]

\* bencodepy.decode(raw) raising
UNDECODABLE == [t |-> "undecodable", v |-> <<>>]

\* dct.get(key)
Get(dct, key) == IF key \in DOMAIN dct.v THEN Some(dct.v[key]) ELSE None

\* isinstance(v, T) on the result of dct.get
IsInt(o) == ~IsNone(o) /\ Val(o).t = "int"
IsBytes(o) == ~IsNone(o) /\ Val(o).t \in {"bytes", "digests"}
IsList(o) == ~IsNone(o) /\ Val(o).t = "list"
IsDict(o) == ~IsNone(o) /\ Val(o).t = "dict"

\* len(b) of a bytes value
ByteLen(b) ==
    IF b.t = "digests" THEN SHA1_SIZE * Len(b.v.digests) + Len(b.v.loose) ELSE Len(b.v)

\* printable ASCII, from code 32 to code 126 (the quote, the backslash and
\* the backtick by name)
PRINTABLE ==
    <<" ", "!", "QUOTE", "#", "$", "%", "&", "'", "(", ")", "*", "+", ",", "-", ".", "/",
      "0", "1", "2", "3", "4", "5", "6", "7", "8", "9", ":", ";", "<", "=", ">", "?",
      "@", "A", "B", "C", "D", "E", "F", "G", "H", "I", "J", "K", "L", "M", "N", "O",
      "P", "Q", "R", "S", "T", "U", "V", "W", "X", "Y", "Z", "[", "BACKSLASH", "]", "^", "_",
      "BACKTICK", "a", "b", "c", "d", "e", "f", "g", "h", "i", "j", "k", "l", "m", "n", "o",
      "p", "q", "r", "s", "t", "u", "v", "w", "x", "y", "z", "{", "|", "}", "~">>

\* U+FFFD, what errors="replace" puts for a byte that is no UTF-8
REPLACEMENT == "U+FFFD"

\* the bytes 0xF8..0xFF never occur in UTF-8
NeverUtf8 == 248 .. 255

\* bytes(v).decode("utf-8", errors="replace"), for printable ASCII and the
\* bytes that are never UTF-8
Utf8Char(n) ==
    CASE n \in 32 .. 126 -> PRINTABLE[n - 31]
      [] n \in NeverUtf8 -> REPLACEMENT

Utf8Decode(b) == [k \in 1 .. Len(b.v) |-> Utf8Char(b.v[k])]

\* text.encode("utf-8") of printable ASCII
Utf8Encode(text) ==
    [k \in 1 .. Len(text) |-> 31 + CHOOSE n \in 1 .. Len(PRINTABLE) : PRINTABLE[n] = text[k]]

\* bencode.py:13-22: strict decoding and decoding with errors="replace" give
\* the same text wherever the strict one succeeds
_bstr(dct, key) ==
    LET v == Get(dct, key)
    IN IF IsNone(v) THEN None
       ELSE IF ~IsBytes(v) THEN None
       ELSE Some(Utf8Decode(Val(v)))

\* "/".join(p)
RECURSIVE JoinSlash(_)
JoinSlash(p) ==
    IF p = <<>> THEN <<>>
    ELSE IF Len(p) = 1 THEN p[1]
    ELSE p[1] \o <<SLASH>> \o JoinSlash(Tail(p))

\* the detection without the step from v2 to hybrid
DetectVersion_NoHybrid(meta_version, has_piece_layers, has_pieces, has_piece_length) ==
    IF meta_version = Some(2) \/ has_piece_layers THEN "v2" ELSE "v1"

\* bencode.py:60-68
DetectVersion(meta_version, has_piece_layers, has_pieces, has_piece_length) ==
    LET v == IF meta_version = Some(2) THEN "v2"
             ELSE IF has_piece_layers THEN "v2" ELSE "v1"
    IN IF v = "v2" /\ (has_pieces \/ has_piece_length) THEN "hybrid" ELSE v

\* raise BencodeError(msg), and return TorrentMeta(...)
BencodeError(msg) == [error |-> Some(msg), meta |-> None]
Parsed(m) == [error |-> None, meta |-> Some(m)]

\* twenty loose bytes as one slot
RawDigest(b) == [alg |-> "raw", of |-> b]

\* bencode.py:78: pieces_raw[i : i + 20] for i in range(0, len(pieces_raw), 20)
RawSlots(b) ==
    [k \in 1 .. Len(b) \div SHA1_SIZE |->
        RawDigest(SubSeq(b, SHA1_SIZE * (k - 1) + 1, SHA1_SIZE * k))]

PieceSlots(pieces_raw) ==
    IF pieces_raw.t = "digests"
    THEN pieces_raw.v.digests \o RawSlots(pieces_raw.v.loose)
    ELSE RawSlots(pieces_raw.v)

\* bencode.py:105-106 and 127-128
Sha1Field(dct) ==
    LET sha1 == Get(dct, "sha1")
    IN IF IsBytes(sha1) /\ ByteLen(Val(sha1)) = SHA1_SIZE
       THEN Some(PieceSlots(Val(sha1))[1]) ELSE None

\* bencode.py:108-109 and 130-131
AttrField(dct) ==
    LET attr == Get(dct, "attr")
    IN IF IsBytes(attr) THEN _bstr(dct, "attr") ELSE None

\* bencode.py:89-90 and 123-124
LengthField(dct) ==
    LET plen == Get(dct, "length")
    IN IF IsInt(plen) THEN Some(Val(plen).v) ELSE None

\* the test taking a list without elements for a path
NoPath_EmptyListKept(parts) == ~IsList(parts)

\* `not isinstance(parts, list) or not parts`
NoPath(parts) == ~IsList(parts) \/ Val(parts).v = <<>>

\* bencode.py:86-120: the loop over fentries from entry k on, files and
\* offset being what the entries before k left
RECURSIVE ParseFiles(_, _, _, _)
ParseFiles(fentries, k, files, offset) ==
    IF k > Len(fentries) THEN files
    ELSE LET fe == fentries[k]
             continue == ParseFiles(fentries, k + 1, files, offset)
         IN IF fe.t # "dict" THEN continue
            ELSE LET length == LengthField(fe)
                     parts == Get(fe, "path")
                 IN IF NoPath(parts) THEN continue
                    ELSE IF \E j \in 1 .. Len(Val(parts).v) :
                                 Val(parts).v[j].t \notin {"bytes", "digests"}
                    THEN continue
                    ELSE LET p == [j \in 1 .. Len(Val(parts).v) |->
                                     Utf8Decode(Val(parts).v[j])]
                             tf == TorrentFile(JoinSlash(p), length, offset,
                                               Sha1Field(fe), AttrField(fe))
                         IN ParseFiles(fentries, k + 1, Append(files, tf),
                                       offset + LengthOrZero(length))

\* bencode.py:80-134
FilesOfInfo(info, name) ==
    IF "files" \in DOMAIN info.v
    THEN ParseFiles(info.v["files"].v, 1, <<>>, 0)
    ELSE <<TorrentFile(name, LengthField(info), 0, Sha1Field(info), AttrField(info))>>

\* `_bstr(info, b"name") or Path(torrent_path).stem`
NameOf(info, stem) ==
    LET name == _bstr(info, "name")
    IN IF IsNone(name) \/ Val(name) = <<>> THEN stem ELSE Val(name)

\* info.get(b"meta version"), when it is an int
MetaVersion(info) ==
    LET v == Get(info, "meta version")
    IN IF IsInt(v) THEN Some(Val(v).v) ELSE None

\* without the check of bencode.py:76-77
BadPiecesLength_Never(pieces_raw) == FALSE

\* `len(pieces_raw) % 20 != 0`
BadPiecesLength(pieces_raw) == ByteLen(pieces_raw) % SHA1_SIZE # 0

\* parse_torrent(torrent_path), root being what bencodepy.decode made of the
\* bytes at torrent_path and stem being Path(torrent_path).stem
parse_torrent(root, stem) ==
    IF root.t = "undecodable" THEN BencodeError("Failed to decode torrent")
    ELSE IF root.t # "dict" THEN BencodeError("Torrent root must be a dict")
    ELSE IF ~IsDict(Get(root, "info")) THEN BencodeError("Missing or invalid 'info' dict")
    ELSE LET info == Val(Get(root, "info"))
             name == NameOf(info, stem)
             version == DetectVersion(MetaVersion(info), "piece layers" \in DOMAIN info.v,
                                      "pieces" \in DOMAIN info.v,
                                      "piece length" \in DOMAIN info.v)
             piece_length == Get(info, "piece length")
             pieces_raw == Get(info, "pieces")
         IN IF ~IsInt(piece_length) THEN BencodeError("Missing or invalid 'piece length'")
            ELSE IF ~IsBytes(pieces_raw) THEN BencodeError("Missing or invalid 'pieces'")
            ELSE IF BadPiecesLength(Val(pieces_raw))
            THEN BencodeError("Invalid pieces hash list length")
            ELSE IF "files" \in DOMAIN info.v /\ info.v["files"].t # "list"
            THEN BencodeError("Invalid 'files' entry")
            ELSE Parsed(TorrentMeta(name, FilesOfInfo(info, name), Val(piece_length).v,
                                    PieceSlots(Val(pieces_raw)), version))

-----------------------------------------------------------------------------
(* Recovery planner (core.py) *)

EXT_GZ == <<".", "g", "z">>
EXT_BZ2 == <<".", "b", "z", "2">>
EXT_XZ == <<".", "x", "z">>
EXT_ZST == <<".", "z", "s", "t">>

Result(recovered, gzipped, bzipped, xzipped, zstipped, skipped, missing) ==
    [recovered |-> recovered, gzipped |-> gzipped, bzipped |-> bzipped,
     xzipped |-> xzipped, zstipped |-> zstipped, skipped |-> skipped,
     missing |-> missing]

\* tf.attr and "p" in tf.attr
IsPadding(tf) ==
    /\ ~IsNone(tf.attr)
    /\ \E k \in 1 .. Len(Val(tf.attr)) : Val(tf.attr)[k] = "p"

IsCompressedName(rel_path) == EndsWithAny(rel_path, {EXT_GZ, EXT_BZ2, EXT_XZ, EXT_ZST})

\* without `if dst.exists() and not overwrite: return True`
_should_skip_file_IgnoresExisting(tf, tree, dst, ow) ==
    IsPadding(tf) \/ ~IsCompressedName(tf.rel_path)

\* without `if tf.attr and "p" in tf.attr: return True`
_should_skip_file_IgnoresPadding(tf, tree, dst, ow) ==
    ~IsCompressedName(tf.rel_path) \/ (Exists(tree, dst) /\ ~ow)

_should_skip_file(tf, tree, dst, ow) ==
    IF IsPadding(tf) THEN TRUE
    ELSE IF ~IsCompressedName(tf.rel_path) THEN TRUE
    ELSE IF Exists(tree, dst) /\ ~ow THEN TRUE
    ELSE FALSE

\* s[:-n]
DropLast(s, n) == Slice(s, 0, IF Len(s) > n THEN Len(s) - n ELSE 0)

_extract_raw_name(expected_name, rel_path) ==
    IF EndsWith(rel_path, EXT_GZ) THEN DropLast(expected_name, Len(EXT_GZ))
    ELSE IF EndsWith(expected_name, EXT_BZ2) THEN
        LET without_bz2 == DropLast(expected_name, Len(EXT_BZ2))
            bzX == {<<".", "b", "z", "1">>, <<".", "b", "z", "6">>, <<".", "b", "z", "9">>}
            pbzX == {<<".", "p", "b", "z", "1">>, <<".", "p", "b", "z", "6">>,
                     <<".", "p", "b", "z", "9">>}
        IN IF EndsWithAny(without_bz2, bzX \cup pbzX)
           THEN IF EndsWithAny(without_bz2, bzX) THEN DropLast(without_bz2, 4)
                ELSE DropLast(without_bz2, 5)
           ELSE without_bz2
    ELSE IF EndsWith(rel_path, EXT_XZ) THEN DropLast(expected_name, Len(EXT_XZ))
    ELSE IF EndsWith(rel_path, EXT_ZST) THEN DropLast(expected_name, Len(EXT_ZST))
    ELSE expected_name

\* the exception _get_piece_info raises, if any: the division at core.py:115
\* and the subscript at core.py:118
PieceInfoError(tf, m, piece_length) ==
    IF IsNone(tf.length) THEN None
    ELSE IF piece_length = 0 THEN Some("ZeroDivisionError")
    ELSE LET start_piece_index == FloorDiv(tf.offset, piece_length)
         IN IF start_piece_index >= Len(m.pieces) THEN None
            ELSE IF ~InRange(m.pieces, start_piece_index) THEN Some("IndexError")
            ELSE None

\* the first slot of pieces taken for every entry
_get_piece_info_FirstPiece(tf, m, piece_length) ==
    IF IsNone(tf.length) \/ m.pieces = <<>> THEN None
    ELSE Some(<<0, At(m.pieces, 0)>>)

_get_piece_info(tf, m, piece_length) ==
    IF IsNone(tf.length) THEN None
    ELSE LET start_piece_index == FloorDiv(tf.offset, piece_length)
         IN IF start_piece_index >= Len(m.pieces) THEN None
            ELSE Some(<<start_piece_index, At(m.pieces, start_piece_index)>>)

\* without the unlink
UnlinkFirst_Never(r, i, dst, ow, dry) == r

\* `if not dry_run and dst.exists() and overwrite: dst.unlink()`
\* (core.py:134-135, and again at 192-193 and 240-241)
UnlinkFirst(r, i, dst, ow, dry) ==
    IF ~dry /\ Exists(r.tree, dst) /\ ow THEN Unlink(r, i, dst) ELSE r

PARTIAL == <<"partial">>

\* a copy that loses the last byte
copy_file_DropsLastByte(r, i, src, dst, dry) ==
    IF dry THEN r
    ELSE WriteFile(MkdirParents(r, i, dst), i, dst, Slice(src.data, 0, -1), PARTIAL)

\* core.py:51-55
copy_file(r, i, src, dst, dry) ==
    IF dry THEN r
    ELSE WriteFile(MkdirParents(r, i, dst), i, dst, src.data, PARTIAL)

\* the outcome of one strategy: whether it matched, the count it returns,
\* and the call's state afterwards
Outcome(ok, count, r) == [ok |-> ok, count |-> count, r |-> r]

_try_partial_recovery(r, i, tf, expected_name, target_piece_hash, piece_length, dst, ow, dry) ==
    LET chosen == choose_candidate(IndexGet(partial_index, expected_name), tf.length)
    IN IF IsNone(chosen) THEN Outcome(FALSE, 0, r)
       ELSE IF /\ Len(Val(chosen).data) >= piece_length
               /\ sha1_piece(Slice(Val(chosen).data, 0, piece_length)) = target_piece_hash
       THEN Outcome(TRUE, 1, copy_file(UnlinkFirst(r, i, dst, ow, dry), i, Val(chosen), dst, dry))
       ELSE Outcome(FALSE, 0, r)

_parse_header_from_partial(tf, expected_name, is_gz) ==
    LET chosen == choose_candidate(IndexGet(partial_index, expected_name), tf.length)
    IN IF IsNone(chosen) THEN None
       ELSE IF is_gz THEN parse_gzip_header(Val(chosen).data)
       ELSE IF EndsWith(tf.rel_path, EXT_BZ2) THEN parse_bzip2_header(Val(chosen).data)
       ELSE IF EndsWith(tf.rel_path, EXT_XZ) THEN parse_xz_header(Val(chosen).data)
       ELSE IF EndsWith(tf.rel_path, EXT_ZST) THEN parse_zstd_header(Val(chosen).data)
       ELSE None

\* the if / elif chain that picks the generator by extension
\* (core.py:174-187 and 220-233); None when no branch applies
GenerateCandidates(tf, is_gz, src, header) ==
    IF is_gz THEN Some(generate_gzip_candidates(tools, src, header))
    ELSE IF EndsWith(tf.rel_path, EXT_BZ2) THEN Some(generate_bzip2_candidates(tools, src, header))
    ELSE IF EndsWith(tf.rel_path, EXT_XZ) THEN Some(generate_xz_candidates(tools, src, header))
    ELSE IF EndsWith(tf.rel_path, EXT_ZST) THEN Some(generate_zstd_candidates(tools, src, header))
    ELSE None

\* the tools that the generator picked by extension runs, its probe of the
\* parallel variant included
GeneratorTools(tf, is_gz) ==
    IF is_gz THEN {"gzip", "pigz"}
    ELSE IF EndsWith(tf.rel_path, EXT_BZ2) THEN {"bzip2", "pbzip2"}
    ELSE IF EndsWith(tf.rel_path, EXT_XZ) THEN {"xz", "pixz"}
    ELSE IF EndsWith(tf.rel_path, EXT_ZST) THEN {"zstd", "pzstd"}
    ELSE {}

\* the call waits in subprocess.run for a child that never exits
WAITING == "waiting for child"
Wait(r) == [r EXCEPT !.error = Some(WAITING)]

\* the candidate scan of one source, noted in r.scans with the path of the
\* source and the step that made it: the SHA-1 gate or brute force
NoteScan(r, candidates, found, raw_path, gated, target_piece_hash) ==
    [r EXCEPT !.scans = Append(@, [candidates |-> candidates, tested |-> found.tested,
                                   hit |-> ~IsNone(found.match),
                                   source |-> raw_path.path, gated |-> gated,
                                   target |-> target_piece_hash])]

\* core.py:191-196 and 239-244
WriteMatch(r, i, dst, match, ow, dry) ==
    LET r1 == MkdirParents(UnlinkFirst(r, i, dst, ow, dry), i, dst)
    IN IF ~dry THEN WriteFile(r1, i, dst, match.data, match.label) ELSE r1

\* a match reported with the count 0 of `return False, 0`
CompressedCount_FallsThrough(tf, is_gz) == 0

\* the count returned with True (core.py:199-206 and 247-256)
CompressedCount(tf, is_gz) ==
    IF is_gz \/ EndsWithAny(tf.rel_path, {EXT_BZ2, EXT_XZ, EXT_ZST}) THEN 1 ELSE 0

\* the loop of _try_sha1_match over raw_index.get(raw_name, []) from entry k on
RECURSIVE Sha1MatchLoop(_, _, _, _, _, _, _, _, _, _, _, _)
Sha1MatchLoop(r, i, tf, paths, k, header, target_piece_hash, piece_length, hash_algo, dst, dry, is_gz) ==
    IF k > Len(paths) THEN Outcome(FALSE, 0, r)
    ELSE LET raw_path == paths[k]
             next(r2) == Sha1MatchLoop(r2, i, tf, paths, k + 1, header, target_piece_hash,
                                       piece_length, hash_algo, dst, dry, is_gz)
         IN IF Some(Len(raw_path.data)) # tf.length THEN next(r)
            ELSE IF sha1_piece(raw_path.data) # Val(tf.sha1) THEN next(r)
            ELSE IF Hangs(tools, GeneratorTools(tf, is_gz)) THEN Outcome(FALSE, 0, Wait(r))
            ELSE LET candidates == GenerateCandidates(tf, is_gz, raw_path, header)
                 IN IF IsNone(candidates) THEN Outcome(FALSE, 0, r)
                    ELSE LET found == find_matching_candidate(Val(candidates), target_piece_hash,
                                                              piece_length, hash_algo)
                             r1 == NoteScan(r, Val(candidates), found, raw_path, TRUE, target_piece_hash)
                         IN IF IsNone(found.match) THEN next(r1)
                            ELSE Outcome(TRUE, CompressedCount(tf, is_gz),
                                         WriteMatch(r1, i, dst, Val(found.match), overwrite, dry))

\* the gate left out: the step returns False, 0 at once
_try_sha1_match_Never(r, i, tf, raw_name, header, target_piece_hash, piece_length, hash_algo, dst, dry, is_gz) ==
    Outcome(FALSE, 0, r)

_try_sha1_match(r, i, tf, raw_name, header, target_piece_hash, piece_length, hash_algo, dst, dry, is_gz) ==
    IF IsNone(tf.sha1) THEN Outcome(FALSE, 0, r)
    ELSE Sha1MatchLoop(r, i, tf, IndexGet(raw_index, raw_name), 1, header, target_piece_hash,
                       piece_length, hash_algo, dst, dry, is_gz)

\* the unlink of the old destination made before the scan, not on a match
_try_brute_force_recovery_UnlinksFirst(r, i, tf, raw_name, header, target_piece_hash, piece_length, hash_algo, dst, dry, is_gz) ==
    LET raw_src == choose_candidate(IndexGet(raw_index, raw_name), None)
        r0 == UnlinkFirst(r, i, dst, overwrite, dry)
    IN IF IsNone(raw_src) THEN Outcome(FALSE, 0, r0)
       ELSE IF Hangs(tools, GeneratorTools(tf, is_gz)) THEN Outcome(FALSE, 0, Wait(r0))
       ELSE LET candidates == GenerateCandidates(tf, is_gz, Val(raw_src), header)
            IN IF IsNone(candidates) THEN Outcome(FALSE, 0, r0)
               ELSE LET found == find_matching_candidate(Val(candidates), target_piece_hash,
                                                         piece_length, hash_algo)
                        r1 == NoteScan(r0, Val(candidates), found, Val(raw_src), FALSE,
                                       target_piece_hash)
                    IN IF IsNone(found.match) THEN Outcome(FALSE, 0, r1)
                       ELSE Outcome(TRUE, CompressedCount(tf, is_gz),
                                    WriteMatch(r1, i, dst, Val(found.match), overwrite, dry))

_try_brute_force_recovery(r, i, tf, raw_name, header, target_piece_hash, piece_length, hash_algo, dst, dry, is_gz) ==
    LET raw_src == choose_candidate(IndexGet(raw_index, raw_name), None)
    IN IF IsNone(raw_src) THEN Outcome(FALSE, 0, r)
       ELSE IF Hangs(tools, GeneratorTools(tf, is_gz)) THEN Outcome(FALSE, 0, Wait(r))
       ELSE LET candidates == GenerateCandidates(tf, is_gz, Val(raw_src), header)
            IN IF IsNone(candidates) THEN Outcome(FALSE, 0, r)
               ELSE LET found == find_matching_candidate(Val(candidates), target_piece_hash,
                                                         piece_length, hash_algo)
                        r1 == NoteScan(r, Val(candidates), found, Val(raw_src), FALSE,
                                       target_piece_hash)
                    IN IF IsNone(found.match) THEN Outcome(FALSE, 0, r1)
                       ELSE Outcome(TRUE, CompressedCount(tf, is_gz),
                                    WriteMatch(r1, i, dst, Val(found.match), overwrite, dry))

\* "sha256" if meta.version in {"v2", "hybrid"} else "sha1"
HashAlgo(m) == IF m.version \in {"v2", "hybrid"} THEN "sha256" ELSE "sha1"

\* counter updates of the loop body
CountSkipped(r) == [r EXCEPT !.res.skipped = @ + 1]
CountNoPiece(r) == [r EXCEPT !.res.missing = @ + 1]
CountRecovered(r) == [r EXCEPT !.res.recovered = @ + 1]
\* the loop falling off its end without `result.missing += 1`
CountMissing_Forgotten(r) == r
CountMissing(r) == [r EXCEPT !.res.missing = @ + 1]

\* core.py:326-333 and 351-358
CountReproduced(r, tf, compressed_count) ==
    IF EndsWith(tf.rel_path, EXT_GZ) THEN [r EXCEPT !.res.gzipped = @ + compressed_count]
    ELSE IF EndsWith(tf.rel_path, EXT_BZ2) THEN [r EXCEPT !.res.bzipped = @ + compressed_count]
    ELSE IF EndsWith(tf.rel_path, EXT_XZ) THEN [r EXCEPT !.res.xzipped = @ + compressed_count]
    ELSE IF EndsWith(tf.rel_path, EXT_ZST) THEN [r EXCEPT !.res.zstipped = @ + compressed_count]
    ELSE r

\* core.py:350-361: the outcome of brute force decides between the format's
\* counter and missing
AfterBruteForce(brute, tf) ==
    IF brute.ok THEN CountReproduced(brute.r, tf, brute.count)
    ELSE IF ~IsNone(brute.r.error) THEN brute.r
    ELSE CountMissing(brute.r)

\* core.py:325-361: the outcome of the SHA-1 gate; brute force follows a miss
AfterSha1Match(gated, i, tf, raw_name, header, target_piece_hash, dst, dry, is_gz) ==
    IF gated.ok THEN CountReproduced(gated.r, tf, gated.count)
    ELSE IF ~IsNone(gated.r.error) THEN gated.r
    ELSE AfterBruteForce(
           _try_brute_force_recovery(gated.r, i, tf, raw_name, header, target_piece_hash,
                                     meta.piece_length, HashAlgo(meta), dst, dry, is_gz),
           tf)

\* core.py:309-361: the header read from the partial file serves both
\* strategies that compress
WithHeader(header, r, i, tf, raw_name, target_piece_hash, dst, dry, is_gz) ==
    AfterSha1Match(
      _try_sha1_match(r, i, tf, raw_name, header, target_piece_hash, meta.piece_length,
                      HashAlgo(meta), dst, dry, is_gz),
      i, tf, raw_name, header, target_piece_hash, dst, dry, is_gz)

\* core.py:304-361: the outcome of direct partial reuse
AfterPartialRecovery(partial, r, i, tf, expected_name, target_piece_hash, dst, dry) ==
    IF partial.ok THEN CountRecovered(partial.r)
    ELSE WithHeader(_parse_header_from_partial(tf, expected_name, EndsWith(tf.rel_path, EXT_GZ)),
                    r, i, tf, _extract_raw_name(expected_name, tf.rel_path),
                    target_piece_hash, dst, dry, EndsWith(tf.rel_path, EXT_GZ))

\* core.py:293-361: with the piece information of the entry
WithPieceInfo(piece_info, r, i, tf, expected_name, dst, dry) ==
    IF IsNone(piece_info) THEN CountNoPiece(r)
    ELSE AfterPartialRecovery(
           _try_partial_recovery(r, i, tf, expected_name, Val(piece_info)[2],
                                 meta.piece_length, dst, overwrite, dry),
           r, i, tf, expected_name, Val(piece_info)[2], dst, dry)

\* core.py:284-361: the pass over entry tf from the call state r
RecoverEntry(r, i, tf, dry) ==
    IF _should_skip_file(tf, r.tree, DstOf(tf.rel_path), overwrite) THEN CountSkipped(r)
    ELSE IF ~IsNone(PieceInfoError(tf, meta, meta.piece_length))
    THEN [r EXCEPT !.error = PieceInfoError(tf, meta, meta.piece_length)]
    ELSE WithPieceInfo(_get_piece_info(tf, meta, meta.piece_length), r, i, tf,
                       PathName(tf.rel_path), DstOf(tf.rel_path), dry)

\* one pass of `for tf in meta.files` (core.py:283-361) on entry i of the
\* torrent, from the call state r, under the given dry_run flag
RecoverFile(r, i, dry) == RecoverEntry([r EXCEPT !.scans = <<>>], i, meta.files[i], dry)

-----------------------------------------------------------------------------
(* Inputs.  A torrent lists up to MaxFiles entries drawn from Entries; the *)
(* publisher hashed, for each compressed entry, the stream Published: the  *)
(* output of one tool run on the first raw file of that name.              *)

MaxFiles == 2

NAME_A_GZ == <<"a">> \o EXT_GZ
NAME_B_XZ == <<"b">> \o EXT_XZ
NAME_C_BZ2 == <<"c">> \o EXT_BZ2
NAME_D_ZST == <<"d">> \o EXT_ZST
PATH_B_XZ == <<"s", "/">> \o NAME_B_XZ
PATH_PAD == <<".", "p", "a", "d", "/">> \o NAME_A_GZ
PATH_TXT == <<"e", ".", "t", "x", "t">>

RawA == IndexedFile("raw/a", <<72, 105>>, 5)
RawB == IndexedFile("raw/b", <<1, 2, 3>>, 5)
RawC == IndexedFile("raw/c", <<1, 2, 3, 4, 5, 6, 7, 8>>, 1)
RawCNewer == IndexedFile("raw/new/c", <<1, 2, 3, 4, 5, 6, 7, 9>>, 2)
RawD == IndexedFile("raw/d", <<1, 2, 3, 4, 5, 6>>, 5)

Published(rel_path) ==
    LET name == PathName(rel_path)
    IN IF name = NAME_A_GZ THEN GzipStdout("gzip", 6, TRUE, TRUE, RawA)
       ELSE IF name = NAME_B_XZ THEN XzStdout("xz", XZ_DEFAULT_LEVEL, RawB.data)
       ELSE IF name = NAME_C_BZ2 THEN Bzip2Stdout("bzip2", 6, RawC.data)
       ELSE IF name = NAME_D_ZST THEN ZstdStdout("zstd", ZSTD_DEFAULT_LEVEL, RawD.data)
       ELSE <<>>

\* a torrent entry before its offset is known: [rel_path, length, sha1, attr]
Entries ==
    { [rel_path |-> NAME_A_GZ, length |-> Some(Len(Published(NAME_A_GZ))),
       sha1 |-> None, attr |-> None],
      [rel_path |-> PATH_B_XZ, length |-> Some(Len(Published(PATH_B_XZ))),
       sha1 |-> None, attr |-> None],
      [rel_path |-> NAME_C_BZ2, length |-> Some(Len(RawC.data)),
       sha1 |-> Some(sha1_piece(RawC.data)), attr |-> None],
      [rel_path |-> NAME_D_ZST, length |-> Some(Len(Published(NAME_D_ZST))),
       sha1 |-> None, attr |-> None],
      [rel_path |-> PATH_PAD, length |-> Some(4), sha1 |-> None, attr |-> Some(<<"p">>)],
      [rel_path |-> PATH_TXT, length |-> Some(3), sha1 |-> None, attr |-> None] }

EntryLists == UNION {[1 .. n -> Entries] : n \in 1 .. MaxFiles}

\* bencode.py:81-120: offset is the running sum of the lengths before
RECURSIVE OffsetOf(_, _)
OffsetOf(entries, i) ==
    IF i = 1 THEN 0 ELSE OffsetOf(entries, i - 1) + LengthOrZero(entries[i - 1].length)

FilesOf(entries) ==
    [i \in 1 .. Len(entries) |->
        TorrentFile(entries[i].rel_path, entries[i].length, OffsetOf(entries, i),
                    entries[i].sha1, entries[i].attr)]

\* the slot the publisher wrote for piece k (0-based): the digest of the
\* first piece of the first compressed entry that starts in piece k
PublishedPiece(files, piece_length, k, digest) ==
    LET at == {i \in 1 .. Len(files) :
                 /\ IsCompressedName(files[i].rel_path)
                 /\ files[i].offset \div piece_length = k}
    IN IF at = {} THEN JunkDigest
       ELSE LET i == CHOOSE a \in at : \A b \in at : a <= b
                piece == Slice(Published(files[i].rel_path), 0, piece_length)
            IN IF digest = "sha1" THEN sha1_piece(piece) ELSE Leading20(sha256_piece(piece))

TotalLength(files) == OffsetOf(files, Len(files)) + LengthOrZero(files[Len(files)].length)

\* a torrent layout: info's `meta version`, the piece length, the digest the
\* publisher wrote into `pieces`, and whether the piece list is cut to one slot
Layouts ==
    { [meta_version |-> None, piece_length |-> 10, digest |-> "sha1", cut |-> FALSE],
      [meta_version |-> None, piece_length |-> 13, digest |-> "sha1", cut |-> TRUE],
      [meta_version |-> Some(2), piece_length |-> 10, digest |-> "sha1", cut |-> FALSE],
      [meta_version |-> Some(2), piece_length |-> 10, digest |-> "sha256", cut |-> FALSE] }

PiecesOf(files, layout) ==
    LET full == (TotalLength(files) + layout.piece_length - 1) \div layout.piece_length
        n == IF layout.cut THEN 1 ELSE full
    IN [k \in 1 .. n |-> PublishedPiece(files, layout.piece_length, k - 1, layout.digest)]

EmptyDict == [k \in {} |-> BInt(0)]

\* the dict of one entry of info.files
FileEntry(e) ==
    LET parts == SplitSlash(e.rel_path)
    IN BDict(("length" :> BInt(Val(e.length)))
             @@ ("path" :> BList([j \in 1 .. Len(parts) |-> BBytes(Utf8Encode(parts[j]))]))
             @@ (IF IsNone(e.sha1) THEN EmptyDict
                 ELSE "sha1" :> BDigests(<<Val(e.sha1)>>, <<>>))
             @@ (IF IsNone(e.attr) THEN EmptyDict
                 ELSE "attr" :> BBytes(Utf8Encode(Val(e.attr)))))

TORRENT_NAME == <<"t">>
TORRENT_STEM == <<"u">>

\* the multi-file torrent a publisher makes of entries under a layout
InfoOf(entries, layout) ==
    BDict(("name" :> BBytes(Utf8Encode(TORRENT_NAME)))
          @@ ("piece length" :> BInt(layout.piece_length))
          @@ ("pieces" :> BDigests(PiecesOf(FilesOf(entries), layout), <<>>))
          @@ ("files" :> BList([i \in 1 .. Len(entries) |-> FileEntry(entries[i])]))
          @@ (IF IsNone(layout.meta_version) THEN EmptyDict
              ELSE "meta version" :> BInt(Val(layout.meta_version))))

TorrentOf(entries, layout) == BDict("info" :> InfoOf(entries, layout))

\* info with key set to val, and info without key
With(info, key, val) == BDict((key :> val) @@ info.v)
Without(info, key) == BDict([k \in DOMAIN info.v \ {key} |-> info.v[k]])

EntryNamed(rel_path) == CHOOSE e \in Entries : e.rel_path = rel_path

LAYOUT_V1 == [meta_version |-> None, piece_length |-> 10, digest |-> "sha1", cut |-> FALSE]

\* a well-formed v1 info dict: a.gz followed by e.txt
BASE == InfoOf(<<EntryNamed(NAME_A_GZ), EntryNamed(PATH_TXT)>>, LAYOUT_V1)

ENTRY_A_GZ == FileEntry(EntryNamed(NAME_A_GZ))
ENTRY_TXT == FileEntry(EntryNamed(PATH_TXT))

\* torrents no publisher above makes: the ones parse_torrent refuses, then
\* ones it accepts
OddTorrents ==
    << UNDECODABLE,
       BList(<<>>),
       BDict(EmptyDict),
       BDict("info" :> BInt(1)),
       BDict("info" :> Without(BASE, "piece length")),
       BDict("info" :> With(BASE, "piece length", BBytes(<<49, 48>>))),
       BDict("info" :> Without(BASE, "pieces")),
       BDict("info" :> With(BASE, "pieces", BInt(0))),
       BDict("info" :> With(BASE, "pieces", BDigests(BASE.v["pieces"].v.digests, <<0>>))),
       BDict("info" :> With(BASE, "files", BDict(EmptyDict))),
       BDict("info" :> With(BASE, "piece length", BInt(0))),
       BDict("info" :> With(BASE, "piece length", BInt(-10))),
       BDict("info" :> With(BASE, "files", BList(<<>>))),
       BDict("info" :> With(BASE, "files",
                            BList(<<BInt(1), Without(ENTRY_A_GZ, "path"),
                                    With(ENTRY_A_GZ, "path", BList(<<>>)),
                                    With(ENTRY_A_GZ, "path", BList(<<BInt(7)>>)),
                                    ENTRY_A_GZ, BBytes(<<>>), ENTRY_TXT>>))),
       BDict("info" :> With(With(Without(BASE, "files"), "name",
                                 BBytes(Utf8Encode(NAME_A_GZ))),
                            "length", BInt(Len(Published(NAME_A_GZ))))),
       BDict("info" :> Without(Without(BASE, "files"), "name")),
       BDict("info" :> With(BASE, "meta version", BBytes(<<50>>))),
       BDict("info" :> With(BASE, "meta version", BInt(1))),
       BDict("info" :> With(BASE, "piece layers", BDict(EmptyDict))),
       BDict("info" :> With(BASE, "files",
                            BList(<<With(ENTRY_TXT, "length", BInt(-4)), ENTRY_A_GZ>>))),
       BDict("info" :> With(BASE, "files",
                            BList(<<With(ENTRY_TXT, "length", BInt(-40)), ENTRY_A_GZ>>))),
       BDict("info" :> With(BASE, "files",
                            BList(<<With(ENTRY_TXT, "length", BBytes(<<51>>)), ENTRY_A_GZ>>))),
       BDict("info" :> With(BASE, "files",
                            BList(<<With(With(With(ENTRY_A_GZ, "attr", BInt(1)),
                                              "sha1", BBytes(<<1, 2, 3>>)),
                                         "path", BList(<<BBytes(<<255>>),
                                                         BBytes(Utf8Encode(NAME_A_GZ))>>))>>))),
       BDict("info" :> With(BASE, "pieces", BBytes([k \in 1 .. SHA1_SIZE |-> 0]))),
       BDict("info" :> With(BASE, "files",
                            BList(<<With(ENTRY_A_GZ, "path",
                                         BList(<<BBytes(Utf8Encode(<<".", ".">>)),
                                                 BBytes(Utf8Encode(NAME_A_GZ))>>)),
                                    ENTRY_TXT>>))),
       BDict("info" :> With(BASE, "files",
                            BList(<<With(ENTRY_A_GZ, "path",
                                         BList(<<BBytes(<<>>),
                                                 BBytes(Utf8Encode(NAME_A_GZ))>>)),
                                    ENTRY_TXT>>))) >>

PartialOf(rel_path, keep) ==
    IndexedFile("partial/x", Slice(Published(rel_path), 0, keep), 3)

\* an older download of a.gz of the published size, and a newer, shorter one
STALE_A_GZ == IndexedFile("partial/old", [k \in 1 .. Len(Published(NAME_A_GZ)) |-> 0], 1)
SHORT_A_GZ == IndexedFile("partial/new", <<31, 139, 8>>, 5)

\* partial_dir: empty, the complete published files (a.gz beside its older
\* and its shorter download), or their headers only
PartialDirs ==
    { <<>>,
      (NAME_A_GZ :> <<STALE_A_GZ, PartialOf(NAME_A_GZ, 99), SHORT_A_GZ>>) @@ (NAME_B_XZ :> <<PartialOf(PATH_B_XZ, 99)>>)
        @@ (NAME_C_BZ2 :> <<PartialOf(NAME_C_BZ2, 99)>>)
        @@ (NAME_D_ZST :> <<PartialOf(NAME_D_ZST, 99)>>),
      (NAME_A_GZ :> <<PartialOf(NAME_A_GZ, GZIP_FIXED_HEADER)>>)
        @@ (NAME_B_XZ :> <<PartialOf(PATH_B_XZ, XZ_HEADER_MIN_SIZE)>>)
        @@ (NAME_C_BZ2 :> <<PartialOf(NAME_C_BZ2, BZIP2_HEADER_SIZE)>>)
        @@ (NAME_D_ZST :> <<PartialOf(NAME_D_ZST, ZSTD_FRAME_HEADER_MIN_SIZE)>>) }

\* raw_dir: empty, or one raw file per name and a newer file of another
\* content beside raw/c
RawDirs ==
    { <<>>,
      (<<"a">> :> <<RawA>>) @@ (<<"b">> :> <<RawB>>) @@ (<<"c">> :> <<RawCNewer, RawC>>)
        @@ (<<"d">> :> <<RawD>>) }

\* the host: every tool installed and working, or no parallel variant and
\* some invocations failing, or a gzip and a pixz that never exit
FULL_HOST ==
    [installed |-> {"gzip", "pigz", "bzip2", "pbzip2", "xz", "pixz", "zstd", "pzstd"},
     failing |-> {}, hanging |-> {}]

Hosts ==
    { FULL_HOST,
      [installed |-> {"gzip", "bzip2", "xz", "zstd"},
       failing |-> {<<"gzip", "-1", "-n">>, <<"xz", "-0", "-c", "--stdout">>,
                    <<"zstd", "-c", "--stdout">>},
       hanging |-> {}],
      [installed |-> {"gzip", "bzip2", "xz", "pixz", "zstd"},
       failing |-> {}, hanging |-> {"gzip", "pixz"}] }

\* raw_dir and the host it is read on; without a raw file no tool is run, so
\* an empty raw_dir is paired with one host only
Sources ==
    {src \in RawDirs \X Hosts : src[1] = <<>> => src[2] = FULL_HOST}

\* the calls made on a host: one whose tools hang is visited with overwrite
\* on and dry_run off, twin making the dry run beside it
CalledOn(host, ow, dry) == host.hanging # {} => ow /\ ~dry

DUMMY == <<111, 108, 100>>

\* the tree under out_root before the call: absent, or holding old files
OutTrees ==
    { Tree(<<>>, {}),
      Tree((DstOf(NAME_A_GZ) :> DUMMY) @@ (DstOf(PATH_B_XZ) :> DUMMY),
           {<<>>, <<<<"s">>>>}) }

NoCounts == Result(0, 0, 0, 0, 0, 0, 0)

\* the state of a call at loop entry
CallState(tree) ==
    [tree |-> tree, res |-> NoCounts, log |-> <<>>, scans |-> <<>>, counted |-> <<>>,
     error |-> None]

-----------------------------------------------------------------------------
(* The state machine of recover *)

Init ==
    /\ \/ \E entries \in EntryLists, layout \in Layouts : torrent = TorrentOf(entries, layout)
       \/ \E k \in 1 .. Len(OddTorrents) : torrent = OddTorrents[k]
    /\ meta = None
    /\ partial_index \in PartialDirs
    /\ \E src \in Sources : raw_index = src[1] /\ tools = src[2]
    /\ overwrite \in BOOLEAN
    /\ dry_run \in BOOLEAN
    /\ CalledOn(tools, overwrite, dry_run)
    /\ out0 \in OutTrees
    /\ run = CallState(out0)
    /\ twin = CallState(out0)
    /\ idx = 1
    /\ pc = "parse"
    /\ call = None
    /\ ret = None

\* `meta = parse_torrent(str(torrent_path))` (core.py:269): a BencodeError
\* leaves recover before anything else is done
ParseTorrent ==
    /\ pc = "parse"
    /\ LET parsed == parse_torrent(torrent, TORRENT_STEM)
       IN IF IsNone(parsed.error)
          THEN meta' = Val(parsed.meta) /\ pc' = "loop"
          ELSE meta' = meta /\ pc' = "decode_error"
    /\ UNCHANGED <<torrent, partial_index, raw_index, tools, overwrite, dry_run, out0, run,
                   twin, idx, call, ret>>

CounterNames ==
    {"recovered", "gzipped", "bzipped", "xzipped", "zstipped", "skipped", "missing"}

\* the counters that differ between two Results, each with its increase
Delta(before, after) ==
    {<<f, after[f] - before[f]>> : f \in {g \in CounterNames : after[g] # before[g]}}

\* one loop pass, with the counters it moved noted in counted; a pass that
\* raised moved none
NoteCounted(before, after) ==
    IF IsNone(after.error)
    THEN [after EXCEPT !.counted = Append(@, Delta(before.res, after.res))]
    ELSE after

\* a call that raised makes no further pass
Pass(r, i, dry) == IF IsNone(r.error) THEN NoteCounted(r, RecoverFile(r, i, dry)) ELSE r

\* the body of `for tf in meta.files` for the entry at idx
ProcessFile ==
    /\ pc = "loop"
    /\ idx <= Len(meta.files)
    /\ run' = Pass(run, idx, dry_run)
    /\ twin' = Pass(twin, idx, ~dry_run)
    /\ idx' = IF IsNone(run'.error) THEN idx + 1 ELSE idx
    /\ pc' = IF IsNone(run'.error) THEN "loop"
             ELSE IF run'.error = Some(WAITING) THEN "waiting" ELSE "crashed"
    /\ UNCHANGED <<torrent, meta, partial_index, raw_index, tools, overwrite, dry_run, out0,
                   call, ret>>

\* `return Result(...)` once the loop is exhausted
Return ==
    /\ pc = "loop"
    /\ idx > Len(meta.files)
    /\ pc' = "done"
    /\ UNCHANGED <<torrent, meta, partial_index, raw_index, tools, overwrite, dry_run, out0,
                   run, twin, idx, call, ret>>

Next == ParseTorrent \/ ProcessFile \/ Return

Spec == Init /\ [][Next]_vars

-----------------------------------------------------------------------------
(* Properties of recover.  run.counted[i] holds the counters that the pass *)
(* over torrent entry i moved; run.log the file-system calls so far.       *)

Processed == 1 .. Len(run.counted)

CountedIn(i) == {e[1] : e \in run.counted[i]}

ReproducedCounters == {"gzipped", "bzipped", "xzipped", "zstipped"}

CounterSum(res) ==
    res.recovered + res.gzipped + res.bzipped + res.xzipped + res.zstipped
    + res.skipped + res.missing

\* the digest the torrent version calls for
VersionDigest(m, piece) ==
    IF m.version = "v1" THEN sha1_piece(piece) ELSE sha256_piece(piece)

\* digest h is what a slot of meta.pieces holds: the slot itself, or the
\* slot is the 20 leading bytes of a longer digest
HashesTo(h, slot) == h = slot \/ (DigestSize(h) > 20 /\ Leading20(h) = slot)

\* the slot of meta.pieces for the piece in which entry i starts
SlotOf(i) == At(meta.pieces, FloorDiv(meta.files[i].offset, meta.piece_length))

\* C1: in a call that writes (dry_run off), every entry counted recovered or
\* reproduced has an output file whose first piece_length bytes hash, with
\* SHA-1 for a v1 torrent and SHA-256 for a v2 or hybrid one, to
\* meta.pieces[offset div piece_length], whichever strategy produced it.
C1_CountedOutputHashesToTarget ==
    ~dry_run =>
      \A i \in Processed :
        (CountedIn(i) \cap ({"recovered"} \cup ReproducedCounters) # {}) =>
          LET dst == DstOf(meta.files[i].rel_path)
          IN /\ dst \in DOMAIN run.tree.files
             /\ FloorDiv(meta.files[i].offset, meta.piece_length) < Len(meta.pieces)
             /\ HashesTo(VersionDigest(meta, Slice(run.tree.files[dst], 0, meta.piece_length)),
                         SlotOf(i))

\* C2: when recover returns, the seven counters add up to the number of
\* entries of meta.files, padding entries included (they count as skipped).
C2_CountersSumToAllEntries ==
    pc = "done" => CounterSum(run.res) = Len(meta.files)

\* the entries whose attr does not contain "p"
NonPadding == {i \in 1 .. Len(meta.files) : ~IsPadding(meta.files[i])}

\* C2 as stated: the counters add up to the number of non-padding entries.
C2_CountersSumToNonPadding ==
    pc = "done" => CounterSum(run.res) = Cardinality(NonPadding)

\* a returned call over a torrent with a padding entry beside a real one
C2_Witness ==
    /\ pc = "done"
    /\ NonPadding # {}
    /\ NonPadding # 1 .. Len(meta.files)
    /\ CounterSum(run.res) = Len(meta.files)

\* C3: the pass over a non-padding entry moves exactly one counter, by
\* exactly one.
C3_OneCounterByOne ==
    \A i \in Processed :
      ~IsPadding(meta.files[i]) =>
        \E f \in CounterNames : run.counted[i] = {<<f, 1>>}

\* two non-padding entries processed with different outcomes
C3_Witness ==
    /\ pc = "done"
    /\ \E i, j \in Processed :
         /\ ~IsPadding(meta.files[i]) /\ ~IsPadding(meta.files[j])
         /\ CountedIn(i) \subseteq ReproducedCounters /\ CountedIn(i) # {}
         /\ CountedIn(j) = {"missing"}

\* C4: with dry_run on, the tree under out_root, files and directories, is
\* what it was before the call.
C4_DryRunLeavesTreeAlone ==
    dry_run => run.tree = out0

\* C5: with dry_run on, recover returns the counters that the same call
\* returns with dry_run off (twin is that call, run in step).
C5_DryRunSameCounters ==
    pc = "done" => run.res = twin.res

\* the loop is about to process the entry at idx
AtEntry == pc = "loop" /\ idx <= Len(meta.files)

Current == meta.files[idx]

\* the file-system calls of the step being taken
NewCalls == SubSeq(run'.log, Len(run.log) + 1, Len(run'.log))

\* C6: with overwrite off, no step removes or changes a file that exists,
\* and the pass over a compressed entry whose destination exists counts it
\* as skipped and makes no file-system call.
C6_ExistingDestinationSkippedAndKept ==
    [][(AtEntry /\ ~overwrite) =>
         /\ \A p \in DOMAIN run.tree.files :
              p \in DOMAIN run'.tree.files /\ run'.tree.files[p] = run.tree.files[p]
         /\ (IsCompressedName(Current.rel_path) /\ Exists(run.tree, DstOf(Current.rel_path))) =>
              /\ run'.counted = Append(run.counted, {<<"skipped", 1>>})
              /\ run'.log = run.log]_vars

\* a compressed entry that a raw file could reproduce was processed while an
\* old file sat at its destination, and the old file is still there
C6_Witness ==
    /\ ~overwrite /\ ~dry_run /\ raw_index # <<>>
    /\ \E i \in Processed :
         LET dst == DstOf(meta.files[i].rel_path)
         IN /\ IsCompressedName(meta.files[i].rel_path)
            /\ ~IsPadding(meta.files[i])
            /\ dst \in DOMAIN out0.files
            /\ CountedIn(i) = {"skipped"}
            /\ run.tree.files[dst] = DUMMY

\* C7: no write ever lands on a path that exists at the moment of the write;
\* with overwrite on and dry_run off, the pass over a compressed non-padding
\* entry whose destination exists does not count it skipped, and each write
\* of that pass goes to the destination after an unlink of it.
C7_UnlinkBeforeWrite ==
    [][AtEntry =>
         LET dst == DstOf(Current.rel_path)
             new == NewCalls
         IN /\ \A k \in 1 .. Len(new) : new[k].op = "write" => ~new[k].existed
            /\ (/\ overwrite /\ ~dry_run
                /\ ~IsPadding(Current) /\ IsCompressedName(Current.rel_path)
                /\ Exists(run.tree, dst)) =>
                 /\ run'.res.skipped = run.res.skipped
                 /\ \A k \in 1 .. Len(new) :
                      new[k].op = "write" =>
                        /\ new[k].path = dst
                        /\ \E j \in 1 .. k - 1 :
                             /\ new[j].op = "unlink" /\ new[j].path = dst
                             /\ new[j].existed]_vars

\* an old destination was unlinked and then written anew
C7_Witness ==
    /\ overwrite /\ ~dry_run
    /\ \E j, k \in 1 .. Len(run.log) :
         /\ j < k
         /\ run.log[j].op = "unlink" /\ run.log[j].existed
         /\ run.log[j].path \in DOMAIN out0.files
         /\ run.log[k].op = "write" /\ run.log[k].path = run.log[j].path
         /\ run.log[k].file = run.log[j].file
         /\ run.tree.files[run.log[k].path] # DUMMY

\* C8: a padding entry is counted skipped and nothing else, no file-system
\* call is made for it, and nothing appears at its destination.
C8_PaddingOnlySkipped ==
    \A i \in Processed :
      IsPadding(meta.files[i]) =>
        /\ run.counted[i] = {<<"skipped", 1>>}
        /\ \A k \in 1 .. Len(run.log) : run.log[k].file # i
        /\ Exists(run.tree, DstOf(meta.files[i].rel_path))
             <=> Exists(out0, DstOf(meta.files[i].rel_path))

\* a padding entry with a compressed name, whose partial file is at hand,
\* was processed in a writing call with overwrite on
C8_Witness ==
    /\ overwrite /\ ~dry_run
    /\ \E i \in Processed :
         /\ IsPadding(meta.files[i])
         /\ IsCompressedName(meta.files[i].rel_path)
         /\ IndexGet(partial_index, PathName(meta.files[i].rel_path)) # <<>>
         /\ CountedIn(i) = {"skipped"}

\* the place of a candidate label in the declared order: header_match, then
\* the primary tool, then its parallel variant, each by rising level
LevelOf(flag) ==
    CASE flag = "-0" -> 0 [] flag = "-1" -> 1 [] flag = "-3" -> 3
      [] flag = "-6" -> 6 [] flag = "-9" -> 9 [] flag = "-22" -> 22

OrderKey(label) ==
    IF label = HEADER_MATCH THEN 0
    ELSE (IF label[1] \in PARALLEL_TOOLS THEN 200 ELSE 100) + LevelOf(label[2])

InDeclaredOrder(labels) ==
    /\ \A k \in 1 .. Len(labels) - 1 : OrderKey(labels[k]) <= OrderKey(labels[k + 1])
    /\ Cardinality({labels[k] : k \in 1 .. Len(labels)}) = Len(labels)

LabelsOf(candidates) == [k \in 1 .. Len(candidates) |-> candidates[k].label]

\* the candidates long enough to hold a first piece
LongEnough(candidates) ==
    SelectSeq(candidates, LAMBDA c : Len(c.data) >= meta.piece_length)

FirstPiece(c) == Slice(c.data, 0, meta.piece_length)

\* the positions in candidates whose first piece has the digest the call
\* compares with the slot of entry i
MatchesAt(i, candidates) ==
    {k \in 1 .. Len(candidates) :
       /\ Len(candidates[k].data) >= meta.piece_length
       /\ HashFn(HashAlgo(meta), FirstPiece(candidates[k])) = SlotOf(i)}

Least(S) == CHOOSE k \in S : \A j \in S : k <= j

\* scan s of entry i went through candidates, of which the positions in
\* hits match: the labels hashed are those up to and including the first
\* match, and what a writing call wrote last is that match
ScannedInOrder(i, s, last, candidates, hits, upto) ==
    /\ InDeclaredOrder(LabelsOf(candidates))
    /\ s.tested = LabelsOf(LongEnough(SubSeq(candidates, 1, upto)))
    /\ s.hit <=> hits # {}
    /\ s.hit =>
         /\ last
         /\ ~dry_run =>
              LET w == run.log[Len(run.log)]
              IN /\ w.op = "write" /\ w.file = i
                 /\ w.label = candidates[upto].label
                 /\ run.tree.files[w.path] = candidates[upto].data

ScannedUpToFirst(i, s, last, candidates, hits) ==
    ScannedInOrder(i, s, last, candidates, hits,
                   IF hits = {} THEN Len(candidates) ELSE Least(hits))

ScannedCandidates(i, s, last, candidates) ==
    ScannedUpToFirst(i, s, last, candidates, MatchesAt(i, candidates))

\* C9: file-system calls are made in the order of meta.files; each scan of
\* the entry just processed went through candidates that are generated in
\* the declared order, hashed them in that order up to and including the
\* first whose first piece matches and none after it, and what a writing
\* call wrote is that first match.
C9_EarliestMatchInDeclaredOrder ==
    /\ Len(run.counted) = idx - 1
    /\ \A k \in 1 .. Len(run.log) - 1 : run.log[k].file <= run.log[k + 1].file
    /\ \A n \in 1 .. Len(run.scans) :
         ScannedCandidates(idx - 1, run.scans[n], n = Len(run.scans),
                           run.scans[n].candidates)

\* the second entry of a torrent was reproduced, in a writing call, by a
\* candidate hashed after three misses, and a later candidate of the list
\* matches as well
C9_Witness ==
    /\ ~dry_run /\ idx = 3
    /\ \E j, k \in 1 .. Len(run.log) : run.log[j].file = 1 /\ run.log[k].file = 2
    /\ \E n \in 1 .. Len(run.scans) :
         LET s == run.scans[n]
         IN /\ s.hit
            /\ Len(s.tested) >= 4
            /\ Cardinality(MatchesAt(2, s.candidates)) >= 2

\* C10: in a hybrid torrent, an entry one of whose scanned candidates has a
\* first piece with the SHA-256 digest kept in its slot of pieces is counted
\* reproduced.  (The slot is 20 bytes wide, so it keeps the leading 20 bytes
\* of the digest; the digest compared must be cut to the same width.)
C10_HybridSha256Accepted ==
    (idx > 1 /\ meta.version = "hybrid") =>
      \A n \in 1 .. Len(run.scans) :
        LET i == idx - 1
            long == LongEnough(run.scans[n].candidates)
        IN (\E k \in 1 .. Len(long) :
              HashesTo(sha256_piece(FirstPiece(long[k])), SlotOf(i)))
           => (CountedIn(i) # {} /\ CountedIn(i) \subseteq ReproducedCounters)

-----------------------------------------------------------------------------
(* Properties of parse_torrent and of recover's call to it *)

\* the value under key of the info dict of root, when root and info are dicts
InfoField(root, key) ==
    IF root.t = "dict" /\ IsDict(Get(root, "info")) THEN Get(Val(Get(root, "info")), key)
    ELSE None

\* root is a torrent that cannot be decoded or modelled
Malformed(root) ==
    \/ root.t = "undecodable"
    \/ root.t # "dict"
    \/ ~IsDict(Get(root, "info"))
    \/ ~IsInt(InfoField(root, "piece length"))
    \/ ~IsBytes(InfoField(root, "pieces"))
    \/ ByteLen(Val(InfoField(root, "pieces"))) % 20 # 0
    \/ (~IsNone(InfoField(root, "files")) /\ ~IsList(InfoField(root, "files")))

\* C11: recover leaves with the decode error exactly when the torrent cannot
\* be decoded or modelled (undecodable, root not a dict, info, piece length or
\* pieces missing or of the wrong type, pieces not a multiple of 20 bytes
\* long, files not a list), and then no torrent entry was examined, no
\* counter moved, no file-system call was made and the tree under target_dir
\* is as it was.
C11_DecodeErrorBeforeAnyFile ==
    /\ pc # "parse" => (pc = "decode_error" <=> Malformed(torrent))
    /\ pc = "decode_error" =>
         /\ meta = None
         /\ idx = 1
         /\ run = CallState(out0)
         /\ run.tree = out0 /\ run.log = <<>> /\ run.counted = <<>> /\ run.res = NoCounts

\* recover left with a decode error on a torrent whose info dict has every
\* field but whose pieces are not a multiple of 20 bytes long, the tree under
\* target_dir holding files
C11_Witness ==
    /\ pc = "decode_error"
    /\ IsInt(InfoField(torrent, "piece length"))
    /\ IsBytes(InfoField(torrent, "pieces"))
    /\ ByteLen(Val(InfoField(torrent, "pieces"))) % 20 = 1
    /\ DOMAIN out0.files # {}

\* the call has ended: recover returned its Result or raised
Ended == pc \in {"done", "decode_error", "crashed"}

\* C12: recover always terminates: a call that has not ended, by returning
\* or by raising, has a next step to take, also on a host where a
\* compression tool never exits; it is never left waiting for a child.
C12_RecoverEndsOrSteps ==
    \/ Ended
    \/ pc = "parse"
    \/ pc = "loop" /\ (idx <= Len(meta.files) \/ idx > Len(meta.files))

\* parse_torrent returned a TorrentMeta
Returned == pc \in {"loop", "done", "crashed", "waiting"}

\* the sum of the lengths of files[1 .. n], an absent length counting as zero
RECURSIVE LengthsSum(_, _)
LengthsSum(files, n) ==
    IF n = 0 THEN 0 ELSE LengthsSum(files, n - 1) + LengthOrZero(files[n].length)

\* every offset of the returned TorrentMeta is the sum of the lengths before it
OffsetsArePrefixSums ==
    Returned => \A i \in 1 .. Len(meta.files) :
                  meta.files[i].offset = LengthsSum(meta.files, i - 1)

\* C13: in every TorrentMeta returned by parse_torrent, each file's offset is
\* the sum of the lengths of the files before it, an absent length counting
\* as zero; the first file has offset 0 and no offset is negative.
C13_OffsetsNonNegativePrefixSums ==
    /\ OffsetsArePrefixSums
    /\ Returned /\ meta.files # <<>> => meta.files[1].offset = 0
    /\ Returned => \A i \in 1 .. Len(meta.files) : meta.files[i].offset >= 0

\* C14: in every v1 TorrentMeta returned by parse_torrent the pieces cover
\* the files exactly: len(pieces) * piece_length >= total_length >
\* (len(pieces) - 1) * piece_length.
C14_PiecesCoverTotalLength ==
    Returned /\ meta.version = "v1" =>
        /\ Len(meta.pieces) * meta.piece_length >= LengthsSum(meta.files, Len(meta.files))
        /\ LengthsSum(meta.files, Len(meta.files)) > (Len(meta.pieces) - 1) * meta.piece_length

\* C15: every TorrentMeta returned by parse_torrent has a positive
\* piece_length and at least one file; a torrent whose piece length is an
\* int that is zero or negative is rejected with the decode error, so that
\* recover never divides by a piece length that is not positive.
C15_PositivePieceLengthNonEmptyFiles ==
    /\ Returned => meta.piece_length > 0 /\ meta.files # <<>>
    /\ pc # "parse" /\ IsInt(InfoField(torrent, "piece length"))
         /\ Val(InfoField(torrent, "piece length")).v <= 0
       => pc = "decode_error"
    /\ run.error # Some("ZeroDivisionError")

\* the entries of info's files list, when it is one
FileEntries == Val(InfoField(torrent, "files")).v

\* an entry that is a mapping and has a path that is not empty
Mapped(fe) ==
    /\ fe.t = "dict"
    /\ ~IsNone(Get(fe, "path"))
    /\ Val(Get(fe, "path")).v # <<>>

\* an entry that is a mapping whose path is a list, not empty, of byte strings
WellFormed(fe) ==
    /\ fe.t = "dict"
    /\ IsList(Get(fe, "path"))
    /\ Val(Get(fe, "path")).v # <<>>
    /\ \A j \in 1 .. Len(Val(Get(fe, "path")).v) :
         Val(Get(fe, "path")).v[j].t \in {"bytes", "digests"}

\* rel_path and length of the TorrentFile made from a well-formed entry
RelPathOf(fe) ==
    JoinSlash([j \in 1 .. Len(Val(Get(fe, "path")).v) |-> Utf8Decode(Val(Get(fe, "path")).v[j])])

\* parse_torrent has just returned a TorrentMeta
JustReturned == pc = "loop" /\ idx = 1

\* C16 as stated: the files returned are the entries that are mappings with
\* a path that is not empty, as many as there are.
C16_DropsOnlyTheListed ==
    JustReturned /\ IsList(InfoField(torrent, "files")) =>
        Len(meta.files) = Len(SelectSeq(FileEntries, Mapped))

\* C16: parse_torrent drops, without raising, every entry of info.files that
\* is not a mapping, has no path, has an empty path, has a path that is not
\* a list or has a path part that is not a byte string; the files returned
\* are the other entries, in their order in the list, each with the path and
\* the length of its entry.
C16_DropsMalformedKeepsOrder ==
    /\ pc = "decode_error" /\ IsList(InfoField(torrent, "files")) => Malformed(torrent)
    /\ JustReturned /\ IsList(InfoField(torrent, "files")) =>
         LET kept == SelectSeq(FileEntries, WellFormed)
         IN /\ Len(meta.files) = Len(kept)
            /\ \A i \in 1 .. Len(kept) :
                 /\ meta.files[i].rel_path = RelPathOf(kept[i])
                 /\ meta.files[i].length = LengthField(kept[i])

\* a torrent whose files list holds entries of each dropped kind around two
\* well-formed ones was parsed: both are returned, in their order
C16_Witness ==
    /\ Returned
    /\ IsList(InfoField(torrent, "files"))
    /\ Len(FileEntries) = 7
    /\ \E j \in 1 .. 7 : FileEntries[j].t # "dict"
    /\ \E j \in 1 .. 7 : Mapped(FileEntries[j]) /\ ~WellFormed(FileEntries[j])
    /\ Len(meta.files) = 2
    /\ meta.files[1].rel_path = NAME_A_GZ
    /\ meta.files[2].rel_path # NAME_A_GZ

\* a call that returned after a pass over Last, the last entry of the torrent
Finished == pc = "done" /\ meta.files # <<>>
Last == meta.files[Len(meta.files)]

\* the lists of paths that the pass over the last entry handed to
\* choose_candidate: the partial files of its basename, the raw files of its
\* raw name
ListsOfLast ==
    {IndexGet(partial_index, PathName(Last.rel_path)),
     IndexGet(raw_index, _extract_raw_name(PathName(Last.rel_path), Last.rel_path))}

\* the expected sizes tried on a list: none, the entry's length, the size of
\* each file of the list, and a size that no file has
ExpectedSizes(paths) ==
    {None, Last.length, Some(0)} \cup {Some(Len(paths[k].data)) : k \in 1 .. Len(paths)}

\* the positions of paths that hold a file of the expected size
SizedAt(paths, expected_size) ==
    IF IsNone(expected_size) THEN {}
    ELSE {k \in 1 .. Len(paths) : Len(paths[k].data) = Val(expected_size)}

\* C17: choose_candidate answers None for an empty list; with an expected
\* size that exactly one path has, that path; with an expected size that
\* several paths have, one of them that none of them is newer than; and
\* otherwise a path of the list that no path of the list is newer than.
C17_ChooseCandidate ==
    Finished =>
      \A paths \in ListsOfLast : \A expected_size \in ExpectedSizes(paths) :
        LET chosen == choose_candidate(paths, expected_size)
            sized == SizedAt(paths, expected_size)
        IN /\ paths = <<>> => IsNone(chosen)
           /\ paths # <<>> =>
                /\ ~IsNone(chosen)
                /\ \E k \in 1 .. Len(paths) : paths[k] = Val(chosen)
                /\ Cardinality(sized) = 1 => \A k \in sized : Val(chosen) = paths[k]
                /\ Cardinality(sized) > 1 =>
                     /\ \E k \in sized : Val(chosen) = paths[k]
                     /\ \A k \in sized : paths[k].mtime <= Val(chosen).mtime
                /\ sized = {} => \A k \in 1 .. Len(paths) : paths[k].mtime <= Val(chosen).mtime

\* recover returned after a pass over an entry a.gz that has three downloads
\* in partial_dir: two of the expected size, of which the newer is chosen
\* although the list holds a newer file still, which is chosen when no size
\* is expected or no file has the expected size
C17_Witness ==
    /\ Finished
    /\ PathName(Last.rel_path) = NAME_A_GZ
    /\ NAME_A_GZ \in DOMAIN partial_index
    /\ LET paths == partial_index[NAME_A_GZ]
       IN /\ paths \in ListsOfLast
          /\ Cardinality(SizedAt(paths, Last.length)) = 2
          /\ choose_candidate(paths, Last.length) = Some(paths[2])
          /\ choose_candidate(paths, None) = Some(paths[3])
          /\ Some(0) \in ExpectedSizes(paths)
          /\ choose_candidate(paths, Some(0)) = Some(paths[3])
          /\ Cardinality(SizedAt(paths, Some(Len(paths[3].data)))) = 1
          /\ paths[1].mtime < paths[2].mtime /\ paths[2].mtime < paths[3].mtime

\* info's `meta version` is the integer 2
MetaVersionIs2 ==
    /\ IsInt(InfoField(torrent, "meta version"))
    /\ Val(InfoField(torrent, "meta version")).v = 2

\* info holds pieces or piece length
HasV1Pieces ==
    ~IsNone(InfoField(torrent, "pieces")) \/ ~IsNone(InfoField(torrent, "piece length"))

\* C18 as stated: meta version == 2 gives v2, hybrid when pieces or piece
\* length are present too; every other torrent is v1.
C18_VersionByMetaVersionOnly ==
    Returned =>
        meta.version = IF MetaVersionIs2
                       THEN (IF HasV1Pieces THEN "hybrid" ELSE "v2")
                       ELSE "v1"

\* C18: parse_torrent sets version by this rule: a torrent whose info has
\* meta version == 2, or has piece layers, is v2; a v2 torrent in which
\* pieces or piece length are present is hybrid; every other torrent is v1.
\* As pieces and piece length are required, no returned TorrentMeta is v2.
C18_VersionRule ==
    Returned =>
        /\ meta.version = IF MetaVersionIs2 \/ ~IsNone(InfoField(torrent, "piece layers"))
                          THEN (IF HasV1Pieces THEN "hybrid" ELSE "v2")
                          ELSE "v1"
        /\ meta.version # "v2"

\* a torrent with piece layers and no meta version was parsed, and one with
\* meta version 2 would be: the TorrentMeta is hybrid
C18_Witness ==
    /\ Returned
    /\ ~IsNone(InfoField(torrent, "piece layers"))
    /\ IsNone(InfoField(torrent, "meta version"))
    /\ meta.version = "hybrid"

\* the arguments find_matching_candidate is checked on: the candidate lists
\* scanned in the last pass of a call that returned, the piece length of the torrent, a short
\* and a long one, and as targets the digests of the first pieces of the
\* first and the last candidate
ScannedLists == {run.scans[n].candidates : n \in 1 .. Len(run.scans)}
PieceLengths == {meta.piece_length, 3, 14}
HashAlgos == {"sha1", "sha256", "md5"}
TargetsOf(candidates, piece_length) ==
    UNION {{sha1_piece(Slice(candidates[k].data, 0, piece_length)),
            sha256_piece(Slice(candidates[k].data, 0, piece_length))} :
           k \in {1, Len(candidates)} \cap 1 .. Len(candidates)}

\* candidate k is long enough and its first piece has the target digest
Qualifies(candidates, k, target, piece_length, hash_algo) ==
    /\ Len(candidates[k].data) >= piece_length
    /\ target = IF hash_algo = "sha1"
                THEN sha1_piece(Slice(candidates[k].data, 0, piece_length))
                ELSE sha256_piece(Slice(candidates[k].data, 0, piece_length))

\* what C19 says of one call
FirstQualifying(candidates, target, piece_length, hash_algo) ==
    LET found == find_matching_candidate(candidates, target, piece_length, hash_algo).match
        hits == {k \in 1 .. Len(candidates) :
                   Qualifies(candidates, k, target, piece_length, hash_algo)}
    IN IF hits = {} THEN IsNone(found)
       ELSE /\ ~IsNone(found)
            /\ Val(found) = candidates[Least(hits)]
            /\ Len(Val(found).data) >= piece_length

\* C19: find_matching_candidate returns the first (label, data) of the list
\* with len(data) >= piece_length whose first piece_length bytes have the
\* target digest, under SHA-1 when hash_algo is "sha1" and under SHA-256
\* otherwise; it returns None exactly when there is none, and never a
\* candidate shorter than piece_length.
C19_FirstQualifyingCandidate ==
    pc = "done" =>
      \A candidates \in ScannedLists, piece_length \in PieceLengths, hash_algo \in HashAlgos :
        \A target \in TargetsOf(candidates, piece_length) :
          FirstQualifying(candidates, target, piece_length, hash_algo)

\* a scanned list whose candidates all qualify under one piece length and
\* target, the first being returned; and under another piece length, the
\* candidate returned for SHA-256 stands behind candidates shorter than the
\* piece, while the same target gives None for SHA-1
C19_Witness ==
    /\ pc = "done"
    /\ \E candidates \in ScannedLists, piece_length \in PieceLengths :
         \E target \in TargetsOf(candidates, piece_length) :
           /\ Len(candidates) >= 2
           /\ \A k \in 1 .. Len(candidates) :
                Qualifies(candidates, k, target, piece_length, "sha1")
           /\ find_matching_candidate(candidates, target, piece_length, "sha1").match
                = Some(candidates[1])
    /\ \E candidates \in ScannedLists, piece_length \in PieceLengths :
         \E target \in TargetsOf(candidates, piece_length) :
           LET found == find_matching_candidate(candidates, target, piece_length, "sha256").match
           IN /\ ~IsNone(found)
              /\ \E k \in 2 .. Len(candidates) :
                   /\ Val(found) = candidates[k]
                   /\ \E j \in 1 .. k - 1 : Len(candidates[j].data) < piece_length
              /\ IsNone(find_matching_candidate(candidates, target, piece_length, "sha1").match)

\* the partial chosen for the entry about to be processed
ChosenPartial == choose_candidate(IndexGet(partial_index, PathName(Current.rel_path)),
                                  Current.length)

\* the entry about to be processed is not skipped, has a target in pieces,
\* and the partial chosen for it is at least a piece long and has a first
\* piece with the target digest: under SHA-1, which is what the comparison
\* uses, or under the algorithm of the torrent's version
PartialMatches ==
    /\ AtEntry
    /\ ~_should_skip_file(Current, run.tree, DstOf(Current.rel_path), overwrite)
    /\ IsNone(PieceInfoError(Current, meta, meta.piece_length))
    /\ ~IsNone(_get_piece_info(Current, meta, meta.piece_length))
    /\ ~IsNone(ChosenPartial)
    /\ Len(Val(ChosenPartial).data) >= meta.piece_length
    /\ LET piece == Slice(Val(ChosenPartial).data, 0, meta.piece_length)
           target == Val(_get_piece_info(Current, meta, meta.piece_length))[2]
       IN \/ sha1_piece(piece) = target
          \/ (IF meta.version = "v1" THEN sha1_piece(piece) ELSE sha256_piece(piece)) = target

-----------------------------------------------------------------------------
(* Properties of the strategies that compress *)

\* the raw name of the entry about to be processed, and its raw files
RawNameOfCurrent == _extract_raw_name(PathName(Current.rel_path), Current.rel_path)
RawFilesOfCurrent == IndexGet(raw_index, RawNameOfCurrent)

\* the pass over the entry at idx gets past the skip filter, finds a target
\* in pieces and does not reuse a partial file
PastPartialReuse ==
    /\ AtEntry
    /\ ~_should_skip_file(Current, run.tree, DstOf(Current.rel_path), overwrite)
    /\ IsNone(PieceInfoError(Current, meta, meta.piece_length))
    /\ ~IsNone(_get_piece_info(Current, meta, meta.piece_length))
    /\ \/ IsNone(ChosenPartial)
       \/ Len(Val(ChosenPartial).data) < meta.piece_length
       \/ sha1_piece(Slice(Val(ChosenPartial).data, 0, meta.piece_length))
            # Val(_get_piece_info(Current, meta, meta.piece_length))[2]

\* the paths of the raw files of the entry that have its length and its
\* SHA-1, in the order of the index
RECURSIVE GatedSources(_, _)
GatedSources(paths, tf) ==
    IF paths = <<>> THEN <<>>
    ELSE (IF Some(Len(Head(paths).data)) = tf.length /\ Some(sha1_piece(Head(paths).data)) = tf.sha1
          THEN <<Head(paths).path>> ELSE <<>>) \o GatedSources(Tail(paths), tf)

\* the scans of the step being taken that the SHA-1 gate made
GatedScans == SelectSeq(run'.scans, LAMBDA s : s.gated)

\* the counter of the entry's format
FormatCounter(tf) ==
    IF EndsWith(tf.rel_path, EXT_GZ) THEN "gzipped"
    ELSE IF EndsWith(tf.rel_path, EXT_BZ2) THEN "bzipped"
    ELSE IF EndsWith(tf.rel_path, EXT_XZ) THEN "xzipped"
    ELSE "zstipped"

\* C21: in a pass that reaches the SHA-1 gate and is not left waiting for a
\* tool, the gate scans nothing when tf.sha1 is not set; otherwise it scans
\* candidates of the raw files of the raw name that have tf.length and
\* tf.sha1, and of no other, in index order, up to the first with a matching
\* candidate; on that match no brute-force scan follows, the entry is
\* counted once in the counter of its format and, in a writing call, the
\* destination is written.
C21_Sha1Gate ==
    [][(PastPartialReuse /\ IsNone(run'.error)) =>
         LET gated == GatedScans
             sources == IF IsNone(Current.sha1) THEN <<>>
                        ELSE GatedSources(RawFilesOfCurrent, Current)
         IN /\ IsNone(Current.sha1) => gated = <<>>
            /\ Len(gated) <= Len(sources)
            /\ \A n \in 1 .. Len(gated) : gated[n].source = sources[n]
            /\ \A n \in 1 .. Len(gated) - 1 : ~gated[n].hit
            /\ \A n \in 1 .. Len(run'.scans) - 1 : run'.scans[n].gated
            /\ (gated # <<>> /\ gated[Len(gated)].hit) =>
                 /\ run'.scans = gated
                 /\ run'.counted = Append(run.counted, {<<FormatCounter(Current), 1>>})
                 /\ ~dry_run => \E k \in 1 .. Len(NewCalls) :
                                  /\ NewCalls[k].op = "write"
                                  /\ NewCalls[k].path = DstOf(Current.rel_path)
            /\ (gated = <<>> \/ ~gated[Len(gated)].hit) => Len(gated) = Len(sources)]_vars

\* the pass over c.bz2, whose torrent entry carries the length and the SHA-1
\* of raw/c, went by a newer raw file of that length and another content,
\* scanned the candidates of raw/c alone, found the published stream among
\* them, wrote it and counted the entry bzipped, brute force making no scan
C21_Witness ==
    /\ pc \in {"loop", "done"} /\ idx > 1
    /\ ~dry_run
    /\ meta.files[idx - 1].rel_path = NAME_C_BZ2
    /\ ~IsNone(meta.files[idx - 1].sha1)
    /\ Len(IndexGet(raw_index, <<"c">>)) = 2
    /\ raw_index[<<"c">>][1].path # RawC.path
    /\ Len(raw_index[<<"c">>][1].data) = Len(RawC.data)
    /\ Len(run.scans) = 1
    /\ run.scans[1].gated /\ run.scans[1].hit
    /\ run.scans[1].source = RawC.path
    /\ run.counted[idx - 1] = {<<"bzipped", 1>>}
    /\ DstOf(NAME_C_BZ2) \in DOMAIN run.tree.files
    /\ run.tree.files[DstOf(NAME_C_BZ2)] = Published(NAME_C_BZ2)

\* the pass over the entry at idx gets past the skip filter
PastSkipFilter ==
    /\ AtEntry
    /\ ~_should_skip_file(Current, run.tree, DstOf(Current.rel_path), overwrite)

\* piece_index = offset // piece_length of the entry at idx is defined
HasPieceIndex == ~IsNone(Current.length) /\ meta.piece_length # 0

PieceIndex == FloorDiv(Current.offset, meta.piece_length)

NoStrategyMatches ==
    /\ PastSkipFilter
    /\ IsNone(PieceInfoError(Current, meta, meta.piece_length))
    /\ ~PartialMatches
    /\ IsNone(run'.error)
    /\ \A n \in 1 .. Len(run'.scans) :
         \A k \in 1 .. Len(run'.scans[n].candidates) :
           ~Qualifies(run'.scans[n].candidates, k, run'.scans[n].target,
                      meta.piece_length, HashAlgo(meta))

\* C23: a pass in which no strategy yields a candidate whose first piece
\* has the target digest counts the entry in missing and nothing else, and
\* makes no file-system call: no write, no unlink and no mkdir, so that the
\* tree under out_root, an old file at the destination included, is as
\* before, whatever overwrite is.
C23_MissLeavesDestination ==
    [][NoStrategyMatches =>
         /\ run'.counted = Append(run.counted, {<<"missing", 1>>})
         /\ NewCalls = <<>>
         /\ run'.tree = run.tree
         /\ LET dst == DstOf(Current.rel_path)
            IN /\ Exists(run'.tree, dst) = Exists(run.tree, dst)
               /\ dst \in DOMAIN run.tree.files =>
                    run'.tree.files[dst] = run.tree.files[dst]]_vars

\* in a writing call with overwrite on, the candidates made for a.gz were
\* scanned without a hit: the entry is missing and the old file at its
\* destination is there as it was before the call
C23_Witness ==
    /\ pc \in {"loop", "done"} /\ idx = 2
    /\ overwrite /\ ~dry_run
    /\ meta.files[1].rel_path = NAME_A_GZ
    /\ DstOf(NAME_A_GZ) \in DOMAIN out0.files
    /\ run.counted[1] = {<<"missing", 1>>}
    /\ run.scans # <<>>
    /\ run.scans[1].candidates # <<>>
    /\ \A n \in 1 .. Len(run.scans) : ~run.scans[n].hit
    /\ run.log = <<>>
    /\ DstOf(NAME_A_GZ) \in DOMAIN run.tree.files
    /\ run.tree.files[DstOf(NAME_A_GZ)] = out0.files[DstOf(NAME_A_GZ)]

-----------------------------------------------------------------------------
(* Direct calls of the format plugins.  call holds the function called, the *)
(* format and the arguments: the bytes of the file or stream, the header    *)
(* and, for a generator, the source file; the host is in tools.  ret holds  *)
(* what came back.  A patched stream is parsed, or patched once more.       *)

\* a gzip member: flags, mtime 7, XFL 0, OS 3, the optional blocks, the
\* deflate payload
GzipMember(flags, blocks, payload) ==
    GZIP_MAGIC \o <<GZIP_METHOD_DEFLATE, flags>> \o ToLittle(7, 4) \o <<0, 3>>
    \o blocks \o payload

DEFLATED == <<75, 76, 0, 1>>

\* more than parse_gzip_header reads: a name of 300 bytes
LONG_NAME == [k \in 1 .. 300 |-> 110]

\* gzip files: made by gzip with and without -n; with an extra field, a
\* name, a comment, or all three; with an extra field cut short by the end
\* of the file, or announced and absent; with a name that lacks its
\* terminator, or has it past what is read; too short; of another magic or
\* method
GzipFiles ==
    { GzipStdout("gzip", 6, TRUE, FALSE, RawA),
      GzipStdout("gzip", 6, FALSE, FALSE, RawA),
      GzipMember(FEXTRA, <<2, 0, 69, 88>>, DEFLATED),
      GzipMember(FCOMMENT, <<99, 0>>, DEFLATED),
      GzipMember(FEXTRA + FNAME + FCOMMENT, <<1, 0, 69, 110, 0, 99, 0>>, DEFLATED),
      GzipMember(FEXTRA, <<5, 0, 69, 88>>, <<>>),
      GzipMember(FEXTRA, <<>>, <<>>),
      GzipMember(FNAME, <<110, 97>>, <<>>),
      GzipMember(FNAME, LONG_NAME \o <<0>>, DEFLATED),
      <<31, 139, 8>>,
      <<80, 75, 3, 4, 0, 0, 0, 0, 0, 0, 0, 0>>,
      <<31, 139, 9, 0, 0, 0, 0, 0, 0, 3, 1, 2>> }

\* headers of gzip files, and headers that clear every flag, name the file
\* anew, add an extra field, or set the flags of fields they do not carry
GzipHeaders ==
    {Val(parse_gzip_header(f)) : f \in {g \in GzipFiles : ~IsNone(parse_gzip_header(g))}}
    \cup { GzipHeader(9, 255, 0, None, None, None),
           GzipHeader(9, 3, FNAME, None, Some(<<120>>), None),
           GzipHeader(9, 3, FEXTRA, Some(<<69>>), None, None),
           GzipHeader(9, 3, FNAME + FCOMMENT, None, None, None) }

Bzip2Files ==
    { Bzip2Stdout("bzip2", 9, RawC.data),
      BZIP2_MAGIC \o <<OrdDigit(1)>>,
      BZIP2_MAGIC \o <<ORD_ZERO, 1, 2>>,
      BZIP2_MAGIC \o <<OrdDigit(9) + 1, 1, 2>>,
      BZIP2_MAGIC,
      <<66, 90, 48, 49, 50>> }

Bzip2Headers == {Bzip2Header(l, Bzip2BlockSize(l)) : l \in BZIP2_MIN_LEVEL .. BZIP2_MAX_LEVEL}

XzFiles ==
    { XzStdout("xz", 6, RawB.data),
      XZ_MAGIC \o <<1, 1, 9, 9, 9, 9>>,
      XZ_MAGIC \o <<0, 4, 230, 214, 180>>,
      <<253, 55, 122, 88, 90, 1, 0, 4, 230, 214, 180, 70, 1>> }

XzHeaders ==
    {XzHeader(flags, Flag(flags, XZ_STREAM_FLAGS_CRC64)) : flags \in {0, 1, 4, 257, 65535}}

ZstdFiles ==
    { ZstdStdout("zstd", 3, RawD.data),
      ZSTD_MAGIC_NUMBER \o <<255, 255>>,
      ZSTD_MAGIC_NUMBER \o <<36>>,
      <<40, 181, 47, 252, 36, 88, 1>> }

ZstdHeaders ==
    {ZstdHeader(w, s, c, d) : w \in {0, 11, 15}, s \in BOOLEAN, c \in BOOLEAN, d \in BOOLEAN}

Formats == {"gz", "bz2", "xz", "zst"}

FilesIn(format) ==
    CASE format = "gz" -> GzipFiles [] format = "bz2" -> Bzip2Files
      [] format = "xz" -> XzFiles [] format = "zst" -> ZstdFiles

HeadersOf(format) ==
    CASE format = "gz" -> GzipHeaders [] format = "bz2" -> Bzip2Headers
      [] format = "xz" -> XzHeaders [] format = "zst" -> ZstdHeaders

\* parse_*_header of the format's plugin
parse_header(format, content) ==
    CASE format = "gz" -> parse_gzip_header(content)
      [] format = "bz2" -> parse_bzip2_header(content)
      [] format = "xz" -> parse_xz_header(content)
      [] format = "zst" -> parse_zstd_header(content)

\* patch_*_header of the format's plugin
patch_header(format, data, header) ==
    CASE format = "gz" -> patch_gzip_header(data, header)
      [] format = "bz2" -> patch_bzip2_header(data, header)
      [] format = "xz" -> patch_xz_header(data, header)
      [] format = "zst" -> patch_zstd_header(data, header)

\* generate_*_candidates of the format's plugin
generate_candidates(format, env, src, header) ==
    CASE format = "gz" -> generate_gzip_candidates(env, src, header)
      [] format = "bz2" -> generate_bzip2_candidates(env, src, header)
      [] format = "xz" -> generate_xz_candidates(env, src, header)
      [] format = "zst" -> generate_zstd_candidates(env, src, header)

\* the tool of the format and its parallel variant, with the probe of the
\* latter
PrimaryTool(format) ==
    CASE format = "gz" -> "gzip" [] format = "bz2" -> "bzip2"
      [] format = "xz" -> "xz" [] format = "zst" -> "zstd"

ParallelTool(format) ==
    CASE format = "gz" -> "pigz" [] format = "bz2" -> "pbzip2"
      [] format = "xz" -> "pixz" [] format = "zst" -> "pzstd"

ProbeOf(format) ==
    IF format = "bz2" THEN <<"pbzip2", "-h">> ELSE <<ParallelTool(format), "--version">>

\* the argument vectors a generator of the format may run, the probe last
Invocations(format) ==
    LET tool_names == {PrimaryTool(format), ParallelTool(format)}
    IN CASE format = "gz" ->
              {<<t, LevelFlag(l)>> \o n \o r :
                 t \in tool_names, l \in {1, 6, 9}, n \in {<<>>, <<"-n">>},
                 r \in {<<>>, <<"--rsyncable">>}}
         [] format = "bz2" -> {<<t, LevelFlag(l)>> : t \in tool_names, l \in {1, 6, 9}}
         [] format = "xz" ->
              {XzBuildCommand(t, l) : t \in tool_names, l \in {0, 6, 9}}
              \cup {<<"xz", "-c", "--stdout">>}
         [] format = "zst" ->
              {ZstdBuildCommand(t, l) : t \in tool_names, l \in {1, 3, 22}}
              \cup {<<"zstd", "-c", "--stdout">>}

\* hosts for a generator of the format: either tool installed or not, and
\* no invocation, any one, or any one beside the probe exiting non-zero
HostsOf(format) ==
    {[installed |-> i, failing |-> f, hanging |-> {}] :
       i \in SUBSET {PrimaryTool(format), ParallelTool(format)},
       f \in {{}} \cup {{a} : a \in Invocations(format)}
             \cup {{a, ProbeOf(format)} : a \in Invocations(format)}}

SourceOf(format) ==
    CASE format = "gz" -> RawA [] format = "bz2" -> RawC
      [] format = "xz" -> RawB [] format = "zst" -> RawD

Call(fn, format, data, header) == [fn |-> fn, format |-> format, data |-> data, header |-> header]

PluginInit ==
    /\ torrent = UNDECODABLE
    /\ meta = None
    /\ partial_index = <<>>
    /\ raw_index = <<>>
    /\ overwrite = FALSE
    /\ dry_run = TRUE
    /\ out0 = Tree(<<>>, {})
    /\ run = CallState(out0)
    /\ twin = CallState(out0)
    /\ idx = 1
    /\ pc = "call"
    /\ ret = None
    /\ \E format \in Formats :
         \/ /\ tools = FULL_HOST
            /\ \E f \in FilesIn(format) :
                 \/ call = Call("parse", format, f, None)
                 \/ \E h \in HeadersOf(format) : call = Call("patch", format, f, Some(h))
         \/ /\ tools \in HostsOf(format)
            /\ \E h \in {None} \cup {Some(x) : x \in HeadersOf(format)} :
                 call = Call("generate", format, SourceOf(format), h)

\* parse_*_header(path) on a file
ParseHeader ==
    /\ pc = "call" /\ call.fn = "parse"
    /\ ret' = Some(parse_header(call.format, call.data))
    /\ pc' = "returned"
    /\ UNCHANGED <<torrent, meta, partial_index, raw_index, tools, overwrite, dry_run, out0,
                   run, twin, idx, call>>

\* patch_*_header(data, header) on a stream
PatchHeader ==
    /\ pc = "call" /\ call.fn = "patch"
    /\ ret' = Some(patch_header(call.format, call.data, Val(call.header)))
    /\ pc' = "patched"
    /\ UNCHANGED <<torrent, meta, partial_index, raw_index, tools, overwrite, dry_run, out0,
                   run, twin, idx, call>>

\* the patched stream, written to a file, parsed
ParsePatched ==
    /\ pc = "patched"
    /\ ret' = Some(parse_header(call.format, Val(ret)))
    /\ pc' = "parsed"
    /\ UNCHANGED <<torrent, meta, partial_index, raw_index, tools, overwrite, dry_run, out0,
                   run, twin, idx, call>>

\* the patched stream patched once more with the same header
PatchAgain ==
    /\ pc = "patched"
    /\ ret' = Some(patch_header(call.format, Val(ret), Val(call.header)))
    /\ pc' = "repatched"
    /\ UNCHANGED <<torrent, meta, partial_index, raw_index, tools, overwrite, dry_run, out0,
                   run, twin, idx, call>>

\* generate_*_candidates(src, header) on the host
Generate ==
    /\ pc = "call" /\ call.fn = "generate"
    /\ ret' = Some(generate_candidates(call.format, tools, call.data, call.header))
    /\ pc' = "returned"
    /\ UNCHANGED <<torrent, meta, partial_index, raw_index, tools, overwrite, dry_run, out0,
                   run, twin, idx, call>>

PluginNext == ParseHeader \/ PatchHeader \/ ParsePatched \/ PatchAgain \/ Generate

PluginSpec == PluginInit /\ [][PluginNext]_vars

-----------------------------------------------------------------------------
(* Properties of the plugins *)

\* the invocation that makes the candidate of the given label, if one does:
\* the header match of gzip and bzip2 is made by the Python library
InvocationOf(format, label) ==
    IF label = HEADER_MATCH
    THEN (IF format \in {"xz", "zst"} THEN Some(<<PrimaryTool(format), "-c", "--stdout">>)
          ELSE None)
    ELSE IF format \in {"xz", "zst"} THEN Some(label \o <<"-c", "--stdout">>)
    ELSE Some(label)

\* the invocation of the candidate, and the probe of its tool, succeed
Ran(env, format, c) ==
    /\ IsNone(InvocationOf(format, c.label)) \/ Succeeds(env, Val(InvocationOf(format, c.label)))
    /\ (c.label # HEADER_MATCH /\ c.label[1] = ParallelTool(format)) =>
         Succeeds(env, ProbeOf(format))

\* C24: whatever tools are missing and whatever invocations exit non-zero,
\* a generator returns a list: the candidates it returns with every tool at
\* work, less those whose invocation fails and those of a parallel tool
\* whose probe fails, in the same order.
C24_ToolFailuresAbsorbed ==
    (pc = "returned" /\ call.fn = "generate") =>
      Val(ret) = SelectSeq(generate_candidates(call.format, FULL_HOST, call.data, call.header),
                           LAMBDA c : Ran(tools, call.format, c))

\* generate_gzip_candidates with a header, on a host where the probe of
\* pigz and `gzip -1 -n` exit non-zero: the header match and the eleven
\* other runs of gzip came back, none of pigz
C24_Witness ==
    /\ pc = "returned" /\ call.fn = "generate" /\ call.format = "gz"
    /\ ~IsNone(call.header)
    /\ tools.installed = {"gzip", "pigz"}
    /\ tools.failing = {<<"gzip", "-1", "-n">>, <<"pigz", "--version">>}
    /\ Len(Val(ret)) = 12
    /\ Val(ret)[1].label = HEADER_MATCH
    /\ Val(ret)[2].label = <<"gzip", "-1", "-n", "--rsyncable">>
    /\ \A k \in 1 .. 12 : Val(ret)[k].label[1] # "pigz"

\* where the deflate payload of a gzip member starts: past the ten fixed
\* bytes and the blocks that its own flags byte announces
GzipPayloadStart(data) ==
    LET flags == data[4]
        pos1 == IF Flag(flags, FEXTRA)
                THEN GZIP_FIXED_HEADER + 2
                     + FromLittle(Slice(data, GZIP_FIXED_HEADER, GZIP_FIXED_HEADER + 2))
                ELSE GZIP_FIXED_HEADER
        pos2 == IF Flag(flags, FNAME) THEN FindZero(data, pos1) + 1 ELSE pos1
    IN IF Flag(flags, FCOMMENT) THEN FindZero(data, pos2) + 1 ELSE pos2

\* a gzip member whose header parses and whose blocks are all there
WholeGzipMember(data) ==
    /\ ~IsNone(parse_gzip_header(data))
    /\ Flag(data[4], FEXTRA) =>
         Len(data) >= GZIP_FIXED_HEADER + 2
                      + FromLittle(Slice(data, GZIP_FIXED_HEADER, GZIP_FIXED_HEADER + 2))
    /\ GzipPayloadStart(data) <= Len(data)

\* a header that carries exactly the fields its flags announce
CarriesItsFields(header) ==
    /\ Flag(header.flags, FEXTRA) <=> ~IsNone(header.extra)
    /\ Flag(header.flags, FNAME) <=> ~IsNone(header.fname)
    /\ Flag(header.flags, FCOMMENT) <=> ~IsNone(header.fcomment)

\* the blocks of a header, as they stand in a gzip member
GzipBlocks(header) ==
    (IF Flag(header.flags, FEXTRA)
     THEN ToLittle(Len(Val(header.extra)), 2) \o Val(header.extra) ELSE <<>>)
    \o (IF Flag(header.flags, FNAME) THEN Val(header.fname) \o <<0>> ELSE <<>>)
    \o (IF Flag(header.flags, FCOMMENT) THEN Val(header.fcomment) \o <<0>> ELSE <<>>)

\* C25: patch_gzip_header of a whole gzip member and a header returns the
\* magic and method of the member, the flags byte, the little-endian mtime,
\* XFL 0 and the OS byte of the header, then the header's blocks in place
\* of the member's (a block whose flag the header clears is gone, a block
\* whose flag it sets is the header's), then the member's deflate payload
\* as it was.
C25_PatchGzipRewritesBlocks ==
    (/\ pc = "patched" /\ call.format = "gz"
     /\ WholeGzipMember(call.data)
     /\ CarriesItsFields(Val(call.header))) =>
      LET header == Val(call.header)
      IN Val(ret) = Slice(call.data, 0, 3) \o <<header.flags % 256>>
                    \o ToLittle(header.mtime, 4) \o <<0, header.os % 256>>
                    \o GzipBlocks(header)
                    \o From(call.data, GzipPayloadStart(call.data))

\* the magic, the minimum header size and the 0-based offsets of the
\* parameter bytes of the formats whose header has a fixed size
MagicOf(format) ==
    CASE format = "bz2" -> BZIP2_MAGIC [] format = "xz" -> XZ_MAGIC
      [] format = "zst" -> ZSTD_MAGIC_NUMBER

MinSizeOf(format) ==
    CASE format = "bz2" -> BZIP2_HEADER_SIZE [] format = "xz" -> XZ_HEADER_MIN_SIZE
      [] format = "zst" -> ZSTD_FRAME_HEADER_MIN_SIZE

ParamOffsets(format) ==
    CASE format = "bz2" -> {3} [] format = "xz" -> {6, 7} [] format = "zst" -> {4, 5}

\* the stream has the size and the magic that the patch asks for
Patchable(format, data) ==
    Len(data) >= MinSizeOf(format) /\ StartsWith(data, MagicOf(format))

\* the parameter bytes of out say what the header says; in the low nibble
\* of the zstd byte the bit of value 8 is set by window_log or by the
\* dict_id flag, whose mask 0x08 lies within the mask 0x0F of window_log
ParamsSet(format, out, header) ==
    CASE format = "bz2" -> out[4] = ORD_ZERO + header.level
      [] format = "xz" -> out[7] = header.flags % 256 /\ out[8] = header.flags \div 256
      [] format = "zst" ->
           /\ out[5] % 8 = header.window_log % 8
           /\ ((out[5] \div 8) % 2 = 1)
                <=> (header.has_dict_id \/ (header.window_log \div 8) % 2 = 1)
           /\ ((out[5] \div 16) % 2 = 1) <=> header.has_checksum
           /\ ((out[5] \div 32) % 2 = 1) <=> header.single_segment
           /\ out[5] < 64 /\ out[6] = 0

\* C26: patch_bzip2_header, patch_xz_header and patch_zstd_header return a
\* stream of the length of their input that differs from it at most in the
\* parameter bytes (bzip2: the level digit at offset 3; xz: the flags at
\* offsets 6-7; zstd: at offsets 4-5 window_log in the low nibble, or-ed
\* with the single_segment, checksum and dict_id bits), which say what the
\* header says; an input shorter than the minimum header or without the
\* magic comes back as it is.
C26_PatchTouchesParameterBytesOnly ==
    (pc = "patched" /\ call.format \in {"bz2", "xz", "zst"}) =>
      LET out == Val(ret)
          data == call.data
      IN /\ Len(out) = Len(data)
         /\ \A k \in 0 .. Len(data) - 1 :
              k \notin ParamOffsets(call.format) => out[k + 1] = data[k + 1]
         /\ ~Patchable(call.format, data) => out = data
         /\ Patchable(call.format, data) => ParamsSet(call.format, out, Val(call.header))

\* the stream of xz patched with the flags 0x0101: bytes 6 and 7 are 1, the
\* stored CRC32 and all that follows are those of the input
C26_Witness ==
    /\ pc = "patched" /\ call.format = "xz"
    /\ call.data = XzStdout("xz", 6, RawB.data)
    /\ Val(call.header).flags = 257
    /\ Val(ret) # call.data
    /\ Val(ret)[7] = 1 /\ Val(ret)[8] = 1
    /\ From(Val(ret), 8) = From(call.data, 8)

\* the fields that the flags byte of a gzip file announces can be read in
\* full within the prefix that parse_gzip_header reads: the length and the
\* bytes of the extra field, the name and the comment up to their terminator
GzipFieldsWithin(prefix) ==
    LET flags == prefix[4]
        xlen == FromLittle(Slice(prefix, GZIP_FIXED_HEADER, GZIP_FIXED_HEADER + 2))
        hasX == Flag(flags, FEXTRA)
        pos1 == IF hasX THEN GZIP_FIXED_HEADER + 2 + xlen ELSE GZIP_FIXED_HEADER
        endN == FindZero(prefix, pos1)
        pos2 == IF Flag(flags, FNAME) THEN endN + 1 ELSE pos1
    IN /\ hasX => Len(prefix) >= GZIP_FIXED_HEADER + 2 /\ Len(prefix) >= pos1
       /\ Flag(flags, FNAME) => endN # -1
       /\ Flag(flags, FCOMMENT) => FindZero(prefix, pos2) # -1

\* the file has the header of its format: the magic, the minimum size, the
\* announced fields within the prefix read, the bzip2 level digit in '1'..'9'
HeaderIsThere(format, content) ==
    CASE format = "gz" ->
           /\ Len(content) >= GZIP_FIXED_HEADER
           /\ StartsWith(content, GZIP_MAGIC)
           /\ GzipFieldsWithin(Slice(content, 0, GZIP_READ_SIZE))
      [] format = "bz2" ->
           /\ Patchable(format, content)
           /\ content[4] \in OrdDigit(BZIP2_MIN_LEVEL) .. OrdDigit(BZIP2_MAX_LEVEL)
      [] format \in {"xz", "zst"} -> Patchable(format, content)

\* C27: parse_header of a format returns None for every file that lacks the
\* magic, is shorter than the minimum header, announces in its flags a field
\* that cannot be read in full within the prefix read, or (bzip2) has a
\* level byte outside '1'..'9': a header comes back only from a file in
\* which all that it reports is present.
C27_ParseReturnsNoneUnlessHeaderIsThere ==
    (pc = "returned" /\ call.fn = "parse" /\ ~IsNone(Val(ret))) =>
      HeaderIsThere(call.format, call.data)

\* a patched stream of one of the formats, patched from a stream with the
\* magic and the minimum header size
Patched(formats) ==
    pc = "patched" /\ call.format \in formats /\ Patchable(call.format, call.data)

\* C30: for bzip2, xz and zstd, a stream with the magic and the minimum
\* header size, and a header h of the format's range: parsing the stream
\* patched with h yields h, and patching the patched stream with h once
\* more changes nothing.
C30_PatchThenParseIsRoundTrip ==
    [][Patched({"bz2", "xz", "zst"}) =>
         /\ pc' = "parsed" => Val(ret') = call.header
         /\ pc' = "repatched" => ret' = ret]_vars

-----------------------------------------------------------------------------
(* Properties of the paths and sizes of what recover writes *)

\* the path made of the given components after out_root stays inside
\* out_root: it is not absolute and no prefix of it climbs above out_root
RECURSIVE Climbs(_, _)
Climbs(parts, depth) ==
    IF parts = <<>> THEN FALSE
    ELSE IF Head(parts) = <<".", ".">> THEN depth = 0 \/ Climbs(Tail(parts), depth - 1)
    ELSE Climbs(Tail(parts), depth + 1)

InsideOutRoot(path) ==
    /\ path = <<>> \/ path[1] # <<SLASH>>
    /\ ~Climbs(path, 0)

\* C28: every path that recover makes a directory for, writes or unlinks
\* lies inside out_root, whatever the path components of the torrent.
C28_WritesStayInsideOutRoot ==
    \A k \in 1 .. Len(run.log) : InsideOutRoot(run.log[k].path)

\* C29: in a writing call, the file at the destination of an entry that
\* the pass just made counted in recovered or in a reproduced counter has
\* the size tf.length that the torrent records for it.
C29_OutputHasRecordedLength ==
    (pc = "loop" /\ idx > 1 /\ ~dry_run
     /\ CountedIn(idx - 1) \cap ({"recovered"} \cup ReproducedCounters) # {}) =>
      LET tf == meta.files[idx - 1]
          dst == DstOf(tf.rel_path)
      IN /\ dst \in DOMAIN run.tree.files
         /\ Some(Len(run.tree.files[dst])) = tf.length

====
